---- MODULE Spec2Model ----
(***************************************************************************)
(* State-machine model of the video annotation client:                     *)
(*   - the useVideoUpload hook (video list, object catalog, detection run, *)
(*     selection / admin panel timers), and                                *)
(*   - the VideoPlayer component (region capture on the canvas, export of  *)
(*     regions as catalog objects, object list and delete dialog).         *)
(* One action per handler / timer callback.  A handler together with the   *)
(* React effects its state changes trigger is one atomic step: effects are *)
(* flushed before the next event is handled.                               *)
(***************************************************************************)
EXTENDS Integers, Sequences, FiniteSets, TLC

(***************************************************************************)
(* Bounds of the model                                                     *)
(***************************************************************************)
MaxUploads == 1       \* upload requests issued in one behaviour
MaxVideos == 2        \* upload requests in one behaviour of the session specification
MaxObjectIds == 6     \* DetectedObject ids generated in one behaviour
MaxAreaIds == 2       \* DrawnArea ids generated in one behaviour
MaxPathLen == 3       \* points captured in one freehand stroke
MaxTimers == 1        \* timer callbacks or responses of one kind pending at once
MaxEdits == 1         \* updateObjectInVideo calls in one behaviour
MaxTime == 2          \* the playback position, in time units of one timeupdate

(***************************************************************************)
(* Program constants                                                       *)
(***************************************************************************)
MaxFileSize == 2048         \* 2 * 1024 * 1024 * 1024 bytes, counted in MiB
MinRectSize == 5            \* width > 5 && height > 5
CloseDistance == 30         \* distance > 30
EraseRadius == 10           \* Math.abs(...) < 10
ProgressDone == 100         \* newProgress >= 100

(***************************************************************************)
(* Values                                                                  *)
(***************************************************************************)
NoVideo == 0          \* null / "" video id; real ids are 1, 2, ...
NoObject == 0         \* null object id; real ids are 1, 2, ...
BULK_DELETE == -1     \* the "BULK_DELETE" marker of objectToDelete

VideoIds == 1..MaxVideos

\* `Object(${n})`
ObjectName(n) == [text |-> "Object", n |-> n]

\* DEFAULT_OBJECTS: confidence (in percent) of each entry, in order.
DEFAULT_OBJECTS == <<95, 87, 92, 78, 84>>

RECURSIVE SeqFilter(_, _)
\* Array.prototype.filter with the predicate "element is in keep".
SeqFilter(s, keep) ==
    IF s = <<>> THEN <<>>
    ELSE IF Head(s) \in keep THEN <<Head(s)>> \o SeqFilter(Tail(s), keep)
    ELSE SeqFilter(Tail(s), keep)

Range(s) == {s[i] : i \in DOMAIN s}

Min(a, b) == IF a < b THEN a ELSE b
Max(a, b) == IF a > b THEN a ELSE b
Abs(a) == IF a < 0 THEN -a ELSE a

(***************************************************************************)
(* State                                                                   *)
(***************************************************************************)
VARIABLES
    \* ---- useVideoUpload ----
    videos,             \* VideoInfo[]: <<[id, detectedObjects, totalObjectsCreated]>>
    selectedVideoId,    \* string | null
    showVideoPlayer,    \* boolean
    adminPanelVisible,  \* boolean
    isDetecting,        \* boolean
    detectionProgress,  \* number
    hasRunDetection,    \* boolean
    selectVideos,       \* the `videos` captured by the handleVideoSelect closure, as far as
                        \* it reads them: the ids of the videos with a non-empty catalog
    detectIntervals,    \* live setInterval callbacks of runObjectDetection, per videoId
    resetTimers,        \* pending setTimeout(() => setDetectionProgress(0), 1000)
    closeTimers,        \* pending 300 ms panel-close timeouts
    uploadsInFlight,    \* POST /api/videos/upload requests awaiting a response
    vttInFlight,        \* GET /api/videos/:id/vtt requests awaiting a response
    \* ---- VideoPlayer ----
    player,             \* the component's useState cells, one field per cell
    canvas,             \* the canvas element: [width, height] and what is drawn on it
    playerIntervals,    \* live setInterval callbacks of the player's runObjectDetection
    playerResetTimers,  \* pending setTimeout(() => setDetectionProgress(0), 1000)
    \* ---- id generators (Date.now() / Math.random() made fresh counters) ----
    nextVideoId, nextObjectId, nextAreaId,
    edits,              \* the number of updateObjectInVideo calls so far
    \* ---- the page around the player ----
    dialogs,            \* the state cells of the delete dialogs of Index and UploadProgress
    videoElement,       \* the <video> element of the open player: [paused, currentTime]
    restoreTimers,      \* pending setTimeout callbacks of toggleDrawing, each with the
                        \* currentTime and wasPaused it captured
    \* ---- history ----
    created,            \* per video id: the objects ever created for it, in order
    absentRuns,         \* per video id: the live detection runs that were invoked while
                        \* the video list held no video of that id
    atToggleOn,         \* the <video> element's state when drawing mode was last turned on
    last                \* the step just taken: [op, vid, arg, toasts]

hookVars == <<videos, selectedVideoId, showVideoPlayer, adminPanelVisible, isDetecting,
              detectionProgress, hasRunDetection, selectVideos, detectIntervals,
              resetTimers, closeTimers, uploadsInFlight, vttInFlight>>
playerVars == <<player, canvas, playerIntervals, playerResetTimers>>
idVars == <<nextVideoId, nextObjectId, nextAreaId, edits>>
pageVars == <<dialogs, videoElement, restoreTimers>>
ghostVars == <<absentRuns, atToggleOn>>
vars == <<hookVars, playerVars, idVars, pageVars, ghostVars, created, last>>

(***************************************************************************)
(* useVideoUpload: derived values and helpers                              *)
(***************************************************************************)
NoVideoInfo == [id |-> NoVideo, detectedObjects |-> <<>>, totalObjectsCreated |-> 0]

HasVideo(vs, videoId) == \E i \in DOMAIN vs : vs[i].id = videoId

\* videos.find((v) => v.id === videoId) || null
FindVideo(vs, videoId) ==
    IF videoId # NoVideo /\ HasVideo(vs, videoId)
    THEN vs[CHOOSE i \in DOMAIN vs :
                vs[i].id = videoId /\ \A j \in DOMAIN vs : vs[j].id = videoId => i <= j]
    ELSE NoVideoInfo

\* const selectedVideo = videos.find((v) => v.id === selectedVideoId) || null
selectedVideo == FindVideo(videos, selectedVideoId)
\* const selectedVideoObjects = selectedVideo?.detectedObjects || []
selectedVideoObjects == selectedVideo.detectedObjects

ObjectIds(objs) == {objs[i].id : i \in DOMAIN objs}
ObjectNames(objs) == [i \in DOMAIN objs |-> objs[i].name]

\* The step record kept for the properties.
Step(op, vid, arg, toasts) ==
    [op |-> op, vid |-> vid, arg |-> arg, toasts |-> toasts]

Toast(kind, msg, names) == [kind |-> kind, msg |-> msg, names |-> names]

\* The session state a request is issued from: the video list with its catalogs
\* and counters, and the region list of the player.
SessionState == [videos |-> videos, drawnAreas |-> player.drawnAreas]

\* What the step of a handler that may issue a request records: whether it did,
\* and the session state the handler was called in.
Request(result) == [result |-> result, before |-> SessionState]

\* The same for a handler that is given a file.
FileRequest(file, result) == [result |-> result, before |-> SessionState, file |-> file]

(***************************************************************************)
(* VideoPlayer: state cells and the open/reset effect                      *)
(***************************************************************************)
NoPoint == [x |-> -1, y |-> -1]     \* a null DrawingPoint
NoArea == [id |-> 0, type |-> "none", points |-> <<>>,
           startPoint |-> NoPoint, endPoint |-> NoPoint]   \* a null DrawnArea

InitPlayer ==
    [isDrawing |-> FALSE, drawnAreas |-> <<>>, currentPath |-> <<>>,
     isMouseDown |-> FALSE, drawingMode |-> "rectangle", rectangleStart |-> NoPoint,
     currentRectangle |-> NoArea, isErasing |-> FALSE, canvasInitialized |-> FALSE,
     isDetecting |-> FALSE, detectionProgress |-> 0, selectedObjectIds |-> <<>>,
     videoUrl |-> NoVideo, showObjectList |-> FALSE, selectedObjectId |-> NoObject,
     showDeleteConfirmModal |-> FALSE, objectToDelete |-> NoObject,
     deleteConfirmed |-> FALSE]

\* useEffect(..., [isOpen, video, initializeCanvas, videoUrl]): the body, for the
\* props of the render it follows.  The preview URL is named by the video it was
\* created for.
OpenResetEffect(p, isOpen, video) ==
    IF isOpen /\ video.id # NoVideo
    THEN [p EXCEPT !.canvasInitialized = FALSE, !.drawnAreas = <<>>,
                   !.currentPath = <<>>, !.isMouseDown = FALSE, !.isDrawing = FALSE,
                   !.isErasing = FALSE, !.selectedObjectIds = <<>>,
                   !.selectedObjectId = NoObject, !.showDeleteConfirmModal = FALSE,
                   !.objectToDelete = NoObject, !.deleteConfirmed = FALSE,
                   !.showObjectList = FALSE,
                   !.videoUrl = IF p.videoUrl = NoVideo THEN video.id ELSE p.videoUrl]
    ELSE IF ~isOpen /\ p.videoUrl # NoVideo
    THEN [p EXCEPT !.videoUrl = NoVideo]
    ELSE p

\* The player state after the render that follows a handler: p is what the handler
\* left, vs/sel/isOpen the hook state it left, recreated the ids of the videos whose
\* VideoInfo object the handler replaced by a new one ({...video, ...}).  The effect
\* runs when isOpen or the identity of the `video` prop changed.
Rendered(p, vs, sel, isOpen, recreated) ==
    LET old == selectedVideo
        new == FindVideo(vs, sel)
        changed == \/ isOpen # showVideoPlayer
                   \/ new.id # old.id
                   \/ new.id # NoVideo /\ new.id \in recreated
    IN IF changed THEN OpenResetEffect(p, isOpen, new) ELSE p

(***************************************************************************)
(* Initial state: the hook and the player as constructed                   *)
(***************************************************************************)
\* What is drawn on the canvas: committed regions and the preview of a capture.
Blank == [areas |-> <<>>, preview |-> NoArea]

\* redrawCanvas(): clearRect, then one stroke per area of the drawnAreas it holds.
Redrawn(areas) == [areas |-> areas, preview |-> NoArea]

\* An HTML canvas before sizing.
DefaultCanvas == [width |-> 300, height |-> 150, shown |-> Blank]

\* A <video> element as mounted: paused at the start.
NewVideoElement == [paused |-> TRUE, currentTime |-> 0]

\* useState(false) / useState(null) of the delete dialogs: showDeleteModal of the
\* hook and deleteConfirmed of Index; showDeleteModal, videoToDelete and
\* deleteConfirmed of UploadProgress.
InitDialogs ==
    [showDeleteModal |-> FALSE, deleteConfirmed |-> FALSE,
     uploadShowDeleteModal |-> FALSE, videoToDelete |-> NoVideo,
     uploadDeleteConfirmed |-> FALSE]

Init ==
    /\ videos = <<>>
    /\ selectedVideoId = NoVideo
    /\ showVideoPlayer = FALSE
    /\ adminPanelVisible = FALSE
    /\ isDetecting = FALSE
    /\ detectionProgress = 0
    /\ hasRunDetection = FALSE
    /\ selectVideos = {}
    /\ detectIntervals = [v \in VideoIds |-> 0]
    /\ resetTimers = 0
    /\ closeTimers = 0
    /\ uploadsInFlight = 0
    /\ vttInFlight = 0
    /\ player = InitPlayer
    /\ canvas = DefaultCanvas
    /\ playerIntervals = [c \in VideoIds \X BOOLEAN |-> 0]
    /\ playerResetTimers = 0
    /\ nextVideoId = 1
    /\ nextObjectId = 1
    /\ nextAreaId = 1
    /\ edits = 0
    /\ dialogs = InitDialogs
    /\ videoElement = NewVideoElement
    /\ restoreTimers = <<>>
    /\ created = [v \in VideoIds |-> <<>>]
    /\ absentRuns = [v \in VideoIds |-> 0]
    /\ atToggleOn = NewVideoElement
    /\ last = [op |-> "init", vid |-> NoVideo, arg |-> 0, toasts |-> <<>>]

(***************************************************************************)
(* useVideoUpload: the catalog operations as functions of the video list   *)
(***************************************************************************)
\* A default object named from the zero-based index: Object(0) .. Object(4).
DefaultObject_ZeroBased(index, id) ==
    [id |-> id, name |-> ObjectName(index - 1), confidence |-> DEFAULT_OBJECTS[index],
     selected |-> FALSE, code |-> [prefix |-> "CODE_OBJ", of |-> index],
     additionalInfo |-> "auto-detected", dlReservoirDomain |-> "http://www.naver.com",
     category |-> "other"]

\* One entry of DEFAULT_OBJECTS.map((obj, index) => ({...obj, id, name})); index
\* counts from 1 here, so the name is Object(index).
DefaultObject(index, id) ==
    [id |-> id, name |-> ObjectName(index), confidence |-> DEFAULT_OBJECTS[index],
     selected |-> FALSE, code |-> [prefix |-> "CODE_OBJ", of |-> index],
     additionalInfo |-> "auto-detected", dlReservoirDomain |-> "http://www.naver.com",
     category |-> "other"]

\* The newObject literal of addNewObjectToVideo; the code is CODE_ followed by the
\* first characters of the object id, which are those of the video id.
NewObject(videoId, id, name, confidence) ==
    [id |-> id, name |-> name, confidence |-> confidence,
     selected |-> FALSE, code |-> [prefix |-> "CODE_", of |-> videoId],
     additionalInfo |-> "auto-detected", dlReservoirDomain |-> "http://www.naver.com",
     category |-> "other"]

\* prev.map((video) => video.id === videoId ? f(video) : video)
MapVideo(vs, videoId, f(_)) ==
    [i \in DOMAIN vs |-> IF vs[i].id = videoId THEN f(vs[i]) ELSE vs[i]]

\* A detection run that appends the default set whatever the catalog holds.
PopulateVideo_Always(video, firstId) ==
    [video EXCEPT
        !.detectedObjects =
            @ \o [i \in 1..Len(DEFAULT_OBJECTS) |-> DefaultObject(i, firstId + i - 1)],
        !.totalObjectsCreated = Max(video.totalObjectsCreated, Len(DEFAULT_OBJECTS))]

\* The setVideos updater of a completed detection run; firstId is the first fresh id.
PopulateVideo(video, firstId) ==
    IF Len(video.detectedObjects) > 0 THEN video
    ELSE [video EXCEPT
            !.detectedObjects =
                [i \in 1..Len(DEFAULT_OBJECTS) |-> DefaultObject(i, firstId + i - 1)],
            !.totalObjectsCreated = Max(video.totalObjectsCreated, Len(DEFAULT_OBJECTS))]

DetectionResult(vs, videoId, firstId) ==
    LET f(video) == PopulateVideo(video, firstId) IN MapVideo(vs, videoId, f)

\* The setVideos updater of addNewObjectToVideo.
AppendObject(video, object) ==
    [video EXCEPT !.totalObjectsCreated = video.totalObjectsCreated + 1,
                  !.detectedObjects = Append(video.detectedObjects, object)]

AddObjectResult(vs, videoId, object) ==
    LET f(video) == AppendObject(video, object) IN MapVideo(vs, videoId, f)

\* A removal that also takes the object back out of the creation counter.
RemoveObject_Uncounting(video, objectId) ==
    [video EXCEPT
        !.detectedObjects =
            SeqFilter(video.detectedObjects,
                      {o \in Range(video.detectedObjects) : o.id # objectId}),
        !.totalObjectsCreated = Len(SeqFilter(video.detectedObjects,
                      {o \in Range(video.detectedObjects) : o.id # objectId}))]

\* video.detectedObjects.filter((obj) => obj.id !== objectId)
RemoveObject(video, objectId) ==
    [video EXCEPT !.detectedObjects =
        SeqFilter(video.detectedObjects,
                  {o \in Range(video.detectedObjects) : o.id # objectId})]

\* The setVideos updater of deleteObjectFromVideo.
DeleteObjectResult(vs, videoId, objectId) ==
    LET f(video) == RemoveObject(video, objectId) IN MapVideo(vs, videoId, f)

\* video.detectedObjects.filter((obj) => !obj.selected)
RemoveSelected(video) ==
    [video EXCEPT !.detectedObjects =
        SeqFilter(video.detectedObjects,
                  {o \in Range(video.detectedObjects) : ~o.selected})]

\* A merge that also resets the confidence of the object it updates.
MergeUpdates_ResetConfidence(video, objectId, updates) ==
    [video EXCEPT !.detectedObjects =
        [i \in DOMAIN video.detectedObjects |->
            LET obj == video.detectedObjects[i] IN
            IF obj.id = objectId
            THEN [k \in DOMAIN obj |-> IF k \in DOMAIN updates THEN updates[k]
                                       ELSE IF k = "confidence" THEN 0 ELSE obj[k]]
            ELSE obj]]

\* { ...obj, ...updates } on the object with that id; updates is a record holding
\* some of the fields name, code, additionalInfo, dlReservoirDomain, category.
MergeUpdates(video, objectId, updates) ==
    [video EXCEPT !.detectedObjects =
        [i \in DOMAIN video.detectedObjects |->
            LET obj == video.detectedObjects[i] IN
            IF obj.id = objectId
            THEN [k \in DOMAIN obj |-> IF k \in DOMAIN updates THEN updates[k] ELSE obj[k]]
            ELSE obj]]

UpdateObjectResult(vs, videoId, objectId, updates) ==
    LET f(video) == MergeUpdates(video, objectId, updates) IN MapVideo(vs, videoId, f)

\* The ids of the videos a map over the list with this videoId re-creates.
Recreated(vs, videoId) == {vs[i].id : i \in {j \in DOMAIN vs : vs[j].id = videoId}}

(***************************************************************************)
(* useVideoUpload: handlers and timer callbacks                            *)
(***************************************************************************)
\* Files offered to handleFileSelect: file.type.startsWith("video/") and file.size
\* (in MiB).
Files == {[isVideo |-> TRUE, size |-> 1],
          [isVideo |-> TRUE, size |-> MaxFileSize],
          [isVideo |-> TRUE, size |-> MaxFileSize + 1],
          [isVideo |-> FALSE, size |-> 1]}

\* handleVideoSelect is re-created only when adminPanelVisible changes, so the
\* `videos` it reads are those of the render that followed the last such change.
SelectClosure(visibleAfter, vs) ==
    IF visibleAfter # adminPanelVisible
    THEN {vs[i].id : i \in {j \in DOMAIN vs : Len(vs[j].detectedObjects) > 0}}
    ELSE selectVideos

\* handleFileSelect up to the await: validation, then the upload request; a
\* behaviour issues at most `limit` requests.
HandleFileSelectUpTo(file, limit) ==
    /\ IF ~file.isVideo
       THEN /\ last' = Step("handleFileSelect", NoVideo, FileRequest(file, "rejected"),
                            <<Toast("error", "video files only", <<>>)>>)
            /\ UNCHANGED uploadsInFlight
       ELSE IF file.size > MaxFileSize
       THEN /\ last' = Step("handleFileSelect", NoVideo, FileRequest(file, "rejected"),
                            <<Toast("error", "larger than 2GB", <<>>)>>)
            /\ UNCHANGED uploadsInFlight
       ELSE /\ nextVideoId - 1 + uploadsInFlight < limit
            /\ uploadsInFlight' = uploadsInFlight + 1
            /\ last' = Step("handleFileSelect", NoVideo, FileRequest(file, "requested"), <<>>)
    /\ UNCHANGED <<videos, selectedVideoId, showVideoPlayer, adminPanelVisible,
                   isDetecting, detectionProgress, hasRunDetection, selectVideos,
                   detectIntervals, resetTimers, closeTimers, vttInFlight>>
    /\ UNCHANGED <<playerVars, idVars, created>>
    /\ UNCHANGED <<pageVars, ghostVars>>

\* handleFileSelect(file)
HandleFileSelect(file) == HandleFileSelectUpTo(file, MaxUploads)

\* handleFileChange(event) of UploadArea, the onChange of the file input: it
\* passes a video file on to onFileSelect and does nothing with any other file.
HandleFileChange(file) ==
    IF file.isVideo
    THEN HandleFileSelect(file)
    ELSE /\ last' = Step("handleFileChange", NoVideo, FileRequest(file, "ignored"), <<>>)
         /\ UNCHANGED <<hookVars, playerVars, idVars, pageVars, ghostVars, created>>

\* handleFileSelect after the await: the response of POST /api/videos/upload.
UploadResponse(ok) ==
    /\ uploadsInFlight > 0
    /\ uploadsInFlight' = uploadsInFlight - 1
    /\ IF ok
       THEN /\ videos' = <<[id |-> nextVideoId, detectedObjects |-> <<>>,
                            totalObjectsCreated |-> 0]>>
            /\ nextVideoId' = nextVideoId + 1
            /\ last' = Step("uploadResponse", nextVideoId, "ok",
                            <<Toast("success", "upload completed", <<>>)>>)
       ELSE /\ UNCHANGED <<videos, nextVideoId>>
            /\ last' = Step("uploadResponse", NoVideo, "failed",
                            <<Toast("error", "upload failed", <<>>)>>)
    /\ player' = Rendered(player, videos', selectedVideoId, showVideoPlayer, {})
    /\ UNCHANGED <<selectedVideoId, showVideoPlayer, adminPanelVisible, isDetecting,
                   detectionProgress, hasRunDetection, selectVideos, detectIntervals,
                   resetTimers, closeTimers, vttInFlight>>
    /\ UNCHANGED <<canvas, playerIntervals, playerResetTimers, nextObjectId,
                   nextAreaId, edits, created>>
    /\ UNCHANGED <<pageVars, ghostVars>>

\* handleVideoSelect(videoId); videoId = "" deselects after the close animation.
HandleVideoSelect(videoId) ==
    /\ IF videoId = NoVideo
       THEN /\ closeTimers < MaxTimers
            /\ closeTimers' = closeTimers + 1
            /\ UNCHANGED <<selectedVideoId, hasRunDetection, adminPanelVisible,
                           selectVideos, player>>
       ELSE /\ selectedVideoId' = videoId
            /\ hasRunDetection' = (videoId \in selectVideos)
            /\ adminPanelVisible' = TRUE
            /\ selectVideos' = SelectClosure(TRUE, videos)
            /\ player' = Rendered(player, videos, videoId, showVideoPlayer, {})
            /\ UNCHANGED closeTimers
    /\ last' = Step("handleVideoSelect", videoId, 0, <<>>)
    /\ UNCHANGED <<videos, showVideoPlayer, isDetecting, detectionProgress,
                   detectIntervals, resetTimers, uploadsInFlight, vttInFlight>>
    /\ UNCHANGED <<canvas, playerIntervals, playerResetTimers, idVars, created>>
    /\ UNCHANGED <<pageVars, ghostVars>>

\* closeAdminPanel(): starts the 300 ms close timeout.
CloseAdminPanel ==
    /\ closeTimers < MaxTimers
    /\ closeTimers' = closeTimers + 1
    /\ last' = Step("closeAdminPanel", NoVideo, 0, <<>>)
    /\ UNCHANGED <<videos, selectedVideoId, showVideoPlayer, adminPanelVisible,
                   isDetecting, detectionProgress, hasRunDetection, selectVideos,
                   detectIntervals, resetTimers, uploadsInFlight, vttInFlight>>
    /\ UNCHANGED <<playerVars, idVars, created>>
    /\ UNCHANGED <<pageVars, ghostVars>>

\* The timeout callback of closeAdminPanel / handleVideoSelect("").
PanelCloseTimeout ==
    /\ closeTimers > 0
    /\ closeTimers' = closeTimers - 1
    /\ selectedVideoId' = NoVideo
    /\ adminPanelVisible' = FALSE
    /\ selectVideos' = SelectClosure(FALSE, videos)
    /\ player' = Rendered(player, videos, NoVideo, showVideoPlayer, {})
    /\ last' = Step("panelCloseTimeout", NoVideo, 0, <<>>)
    /\ UNCHANGED <<videos, showVideoPlayer, isDetecting, detectionProgress,
                   hasRunDetection, detectIntervals, resetTimers, uploadsInFlight,
                   vttInFlight>>
    /\ UNCHANGED <<canvas, playerIntervals, playerResetTimers, idVars, created>>
    /\ UNCHANGED <<pageVars, ghostVars>>

\* The body of deleteVideo(videoId): what it writes, and the state it leaves alone.
DeleteVideoCall(videoId) ==
    /\ IF selectedVideoId = videoId
       THEN /\ closeTimers < MaxTimers
            /\ closeTimers' = closeTimers + 1
       ELSE UNCHANGED closeTimers
    /\ videos' = SeqFilter(videos, {v \in Range(videos) : v.id # videoId})
    /\ player' = Rendered(player, videos', selectedVideoId, showVideoPlayer, {})
    /\ UNCHANGED <<selectedVideoId, showVideoPlayer, adminPanelVisible, isDetecting,
                   detectionProgress, hasRunDetection, selectVideos, detectIntervals,
                   resetTimers, uploadsInFlight, vttInFlight>>
    /\ UNCHANGED <<canvas, playerIntervals, playerResetTimers, idVars, created>>
    /\ UNCHANGED <<videoElement, restoreTimers, ghostVars>>

\* deleteVideo(videoId)
DeleteVideo(videoId) ==
    /\ DeleteVideoCall(videoId)
    /\ last' = Step("deleteVideo", videoId, 0,
                    <<Toast("success", "video deleted", <<>>)>>)
    /\ UNCHANGED dialogs

\* openVideoPlayer()
OpenVideoPlayer ==
    /\ showVideoPlayer' = (showVideoPlayer \/ selectedVideo.id # NoVideo)
    /\ player' = Rendered(player, videos, selectedVideoId, showVideoPlayer', {})
    /\ last' = Step("openVideoPlayer", selectedVideo.id, 0, <<>>)
    /\ UNCHANGED <<videos, selectedVideoId, adminPanelVisible, isDetecting,
                   detectionProgress, hasRunDetection, selectVideos, detectIntervals,
                   resetTimers, closeTimers, uploadsInFlight, vttInFlight>>
    /\ UNCHANGED <<canvas, playerIntervals, playerResetTimers, idVars, created>>
    /\ UNCHANGED <<pageVars, ghostVars>>

\* onClose={() => setShowVideoPlayer(false)}, the player's close button.  The
\* player renders nothing while closed: its <video> element is unmounted, a later
\* opening mounts a new one, and the restore callbacks still pending hold the old
\* element.
CloseVideoPlayer ==
    /\ showVideoPlayer
    /\ showVideoPlayer' = FALSE
    /\ player' = Rendered(player, videos, selectedVideoId, FALSE, {})
    /\ videoElement' = NewVideoElement
    /\ restoreTimers' = <<>>
    /\ last' = Step("closeVideoPlayer", selectedVideo.id, 0, <<>>)
    /\ UNCHANGED <<videos, selectedVideoId, adminPanelVisible, isDetecting,
                   detectionProgress, hasRunDetection, selectVideos, detectIntervals,
                   resetTimers, closeTimers, uploadsInFlight, vttInFlight>>
    /\ UNCHANGED <<canvas, playerIntervals, playerResetTimers, idVars, created>>
    /\ UNCHANGED <<dialogs, ghostVars>>

(***************************************************************************)
(* useVideoUpload: the detection run                                       *)
(***************************************************************************)
\* Math.random() * 15 + 5, the amounts one 200 ms tick may add.
ProgressIncrements == {7, 19}

\* Math.min(newProgress, 100) of a tick that does not complete the run.
NextProgress(prev, inc) == Min(prev + inc, ProgressDone)

\* newProgress === 100 in place of newProgress >= 100
TickCompletes_Exact(prev, inc) == prev + inc = ProgressDone

\* newProgress >= 100
TickCompletes(prev, inc) == prev + inc >= ProgressDone

\* The body of runObjectDetection(videoId) in a closure that saw isDetecting = seen:
\* the guard, then the state writes and the new interval.
StartDetection(videoId, seen) ==
    IF videoId = NoVideo \/ seen
    THEN UNCHANGED <<isDetecting, detectionProgress, detectIntervals, absentRuns>>
    ELSE /\ detectIntervals[videoId] < MaxTimers
         /\ isDetecting' = TRUE
         /\ detectionProgress' = 0
         /\ detectIntervals' = [detectIntervals EXCEPT ![videoId] = @ + 1]
         /\ absentRuns' = IF HasVideo(videos, videoId) THEN absentRuns
                          ELSE [absentRuns EXCEPT ![videoId] = @ + 1]

\* handleObjectDetectionFromAdmin: the admin panel's "run detection" button.
RunObjectDetection ==
    /\ selectedVideo.id # NoVideo
    /\ StartDetection(selectedVideo.id, isDetecting)
    /\ last' = Step("runObjectDetection", selectedVideo.id,
                    IF isDetecting THEN "ignored" ELSE "started", <<>>)
    /\ UNCHANGED <<videos, selectedVideoId, showVideoPlayer, adminPanelVisible,
                   hasRunDetection, selectVideos, resetTimers, closeTimers,
                   uploadsInFlight, vttInFlight>>
    /\ UNCHANGED <<playerVars, idVars, created>>
    /\ UNCHANGED <<pageVars, atToggleOn>>

\* One firing of the interval callback of runObjectDetection(videoId).
DetectionTick(videoId, inc) ==
    /\ detectIntervals[videoId] > 0
    /\ IF TickCompletes(detectionProgress, inc)
       THEN LET video == FindVideo(videos, videoId)
                populates == video.id # NoVideo /\ Len(video.detectedObjects) = 0
                n == IF populates THEN Len(DEFAULT_OBJECTS) ELSE 0
            IN /\ nextObjectId + n - 1 <= MaxObjectIds
               /\ resetTimers < MaxTimers
               /\ detectIntervals' = [detectIntervals EXCEPT ![videoId] = @ - 1]
               /\ absentRuns' = [absentRuns EXCEPT
                                    ![videoId] = Min(@, detectIntervals[videoId] - 1)]
               /\ isDetecting' = FALSE
               /\ detectionProgress' = ProgressDone
               /\ hasRunDetection' = TRUE
               /\ videos' = DetectionResult(videos, videoId, nextObjectId)
               /\ selectedVideoId' = videoId
               /\ resetTimers' = resetTimers + 1
               /\ nextObjectId' = nextObjectId + n
               /\ created' = IF populates
                             THEN [created EXCEPT ![videoId] = @ \o
                                     [i \in 1..n |-> ObjectName(i)]]
                             ELSE created
               /\ player' = Rendered(player, videos', videoId, showVideoPlayer,
                                     IF populates THEN {videoId} ELSE {})
               /\ last' = Step("detectionComplete", videoId, n,
                               <<Toast("success", "detection completed", <<>>)>>)
       ELSE /\ detectionProgress' = NextProgress(detectionProgress, inc)
            /\ last' = Step("detectionTick", videoId, inc, <<>>)
            /\ UNCHANGED <<detectIntervals, isDetecting, hasRunDetection, videos,
                           selectedVideoId, resetTimers, nextObjectId, created, player,
                           absentRuns>>
    /\ UNCHANGED <<showVideoPlayer, adminPanelVisible, selectVideos, closeTimers,
                   uploadsInFlight, vttInFlight>>
    /\ UNCHANGED <<canvas, playerIntervals, playerResetTimers, nextVideoId, edits, nextAreaId>>
    /\ UNCHANGED <<pageVars, atToggleOn>>

\* setTimeout(() => setDetectionProgress(0), 1000)
DetectionResetTimeout ==
    /\ resetTimers > 0
    /\ resetTimers' = resetTimers - 1
    /\ detectionProgress' = 0
    /\ last' = Step("detectionResetTimeout", NoVideo, 0, <<>>)
    /\ UNCHANGED <<videos, selectedVideoId, showVideoPlayer, adminPanelVisible,
                   isDetecting, hasRunDetection, selectVideos, detectIntervals,
                   closeTimers, uploadsInFlight, vttInFlight>>
    /\ UNCHANGED <<playerVars, idVars, created>>
    /\ UNCHANGED <<pageVars, ghostVars>>

(***************************************************************************)
(* useVideoUpload: catalog operations                                      *)
(***************************************************************************)
\* deleteObjectFromVideo(videoId, objectId)
DeleteObjectFromVideo(videoId, objectId) ==
    /\ videos' = DeleteObjectResult(videos, videoId, objectId)
    /\ player' = Rendered(player, videos', selectedVideoId, showVideoPlayer,
                          Recreated(videos, videoId))
    /\ last' = Step("deleteObjectFromVideo", videoId, objectId, <<>>)
    /\ UNCHANGED <<selectedVideoId, showVideoPlayer, adminPanelVisible, isDetecting,
                   detectionProgress, hasRunDetection, selectVideos, detectIntervals,
                   resetTimers, closeTimers, uploadsInFlight, vttInFlight>>
    /\ UNCHANGED <<canvas, playerIntervals, playerResetTimers, idVars, created>>
    /\ UNCHANGED <<pageVars, ghostVars>>

\* The field updates handleEditComplete can build.
Updates == {[name |-> [text |-> "Renamed", n |-> 0],
             category |-> "GTIN", code |-> [prefix |-> "EDITED", of |-> 0]]}

\* Updates that hold one, two or all of the five fields.
PartialUpdates ==
    {[name |-> [text |-> "Renamed", n |-> 0]],
     [code |-> [prefix |-> "EDITED", of |-> 0], category |-> "GTIN"],
     [name |-> [text |-> "Renamed", n |-> 0], code |-> [prefix |-> "EDITED", of |-> 0],
      additionalInfo |-> "edited", dlReservoirDomain |-> "http://edited",
      category |-> "GTIN"]}

\* updateObjectInVideo(videoId, objectId, updates)
UpdateObjectInVideo(videoId, objectId, updates) ==
    /\ edits < MaxEdits
    /\ videos' = UpdateObjectResult(videos, videoId, objectId, updates)
    /\ player' = Rendered(player, videos', selectedVideoId, showVideoPlayer,
                          Recreated(videos, videoId))
    /\ last' = Step("updateObjectInVideo", videoId,
                    [id |-> objectId, updates |-> updates], <<>>)
    /\ edits' = edits + 1
    /\ UNCHANGED <<selectedVideoId, showVideoPlayer, adminPanelVisible, isDetecting,
                   detectionProgress, hasRunDetection, selectVideos, detectIntervals,
                   resetTimers, closeTimers, uploadsInFlight, vttInFlight>>
    /\ UNCHANGED <<canvas, playerIntervals, playerResetTimers, nextVideoId, nextObjectId,
                   nextAreaId, created>>
    /\ UNCHANGED <<pageVars, ghostVars>>

\* The body of deleteSelectedObjects(); confirmedAfter is the deleteConfirmed cell of
\* Index once the caller's handler has returned.
DeleteSelectedObjectsCall(confirmedAfter) ==
    /\ IF selectedVideoId = NoVideo
       THEN /\ UNCHANGED <<videos, player>>
            /\ dialogs' = [dialogs EXCEPT !.deleteConfirmed = confirmedAfter]
            /\ last' = Step("deleteSelectedObjects", NoVideo, "ignored", <<>>)
       ELSE /\ videos' = MapVideo(videos, selectedVideoId, RemoveSelected)
            /\ player' = Rendered(player, videos', selectedVideoId, showVideoPlayer,
                                  Recreated(videos, selectedVideoId))
            /\ dialogs' = [dialogs EXCEPT !.showDeleteModal = FALSE,
                                          !.deleteConfirmed = confirmedAfter]
            /\ last' = Step("deleteSelectedObjects", selectedVideoId, "done",
                            <<Toast("success", "selected objects deleted", <<>>)>>)
    /\ UNCHANGED <<selectedVideoId, showVideoPlayer, adminPanelVisible, isDetecting,
                   detectionProgress, hasRunDetection, selectVideos, detectIntervals,
                   resetTimers, closeTimers, uploadsInFlight, vttInFlight>>
    /\ UNCHANGED <<canvas, playerIntervals, playerResetTimers, idVars, created>>
    /\ UNCHANGED <<videoElement, restoreTimers, ghostVars>>

\* deleteSelectedObjects()
DeleteSelectedObjects == DeleteSelectedObjectsCall(dialogs.deleteConfirmed)

(***************************************************************************)
(* Index and UploadProgress: the delete dialogs                            *)
(***************************************************************************)
\* The frame of a dialog handler that writes state cells of the dialogs only.
DialogOnly ==
    /\ UNCHANGED <<hookVars, playerVars, idVars, created>>
    /\ UNCHANGED <<videoElement, restoreTimers, ghostVars>>

\* onDeleteSelected={() => setShowDeleteModal(true)}, the callback Index hands to
\* the admin panel.
OpenDeleteModal ==
    /\ adminPanelVisible
    /\ selectedVideo.id # NoVideo
    /\ dialogs' = [dialogs EXCEPT !.showDeleteModal = TRUE]
    /\ last' = Step("openDeleteModal", selectedVideo.id, 0, <<>>)
    /\ DialogOnly

\* The checkbox of the Index dialog: setDeleteConfirmed(e.target.checked).
SetIndexDeleteConfirmed(checked) ==
    /\ dialogs.showDeleteModal
    /\ dialogs' = [dialogs EXCEPT !.deleteConfirmed = checked]
    /\ last' = Step("setIndexDeleteConfirmed", NoVideo, checked, <<>>)
    /\ DialogOnly

\* The cancel button of the Index dialog.
CancelIndexDelete ==
    /\ dialogs.showDeleteModal
    /\ dialogs' = [dialogs EXCEPT !.showDeleteModal = FALSE, !.deleteConfirmed = FALSE]
    /\ last' = Step("cancelIndexDelete", NoVideo, 0, <<>>)
    /\ DialogOnly

\* The delete button of the Index dialog, disabled while deleteConfirmed is false:
\* deleteSelectedObjects(); setDeleteConfirmed(false).
ConfirmIndexDelete ==
    /\ dialogs.showDeleteModal
    /\ dialogs.deleteConfirmed
    /\ DeleteSelectedObjectsCall(FALSE)

\* handleDeleteClick(e, uploadId) of UploadProgress; the button is shown on the row
\* of the selected video.
UploadHandleDeleteClick(uploadId) ==
    /\ uploadId # NoVideo
    /\ uploadId = selectedVideoId
    /\ HasVideo(videos, uploadId)
    /\ dialogs' = [dialogs EXCEPT !.videoToDelete = uploadId,
                                  !.uploadShowDeleteModal = TRUE,
                                  !.uploadDeleteConfirmed = FALSE]
    /\ last' = Step("uploadHandleDeleteClick", uploadId, 0, <<>>)
    /\ DialogOnly

\* The dialog of UploadProgress is rendered: showDeleteModal && videoToDelete.
UploadDialogShown == dialogs.uploadShowDeleteModal /\ dialogs.videoToDelete # NoVideo

\* The checkbox of the UploadProgress dialog.
UploadSetDeleteConfirmed(checked) ==
    /\ UploadDialogShown
    /\ dialogs' = [dialogs EXCEPT !.uploadDeleteConfirmed = checked]
    /\ last' = Step("uploadSetDeleteConfirmed", NoVideo, checked, <<>>)
    /\ DialogOnly

\* cancelDelete() of UploadProgress
UploadCancelDelete ==
    /\ UploadDialogShown
    /\ dialogs' = [dialogs EXCEPT !.uploadShowDeleteModal = FALSE,
                                  !.videoToDelete = NoVideo,
                                  !.uploadDeleteConfirmed = FALSE]
    /\ last' = Step("uploadCancelDelete", NoVideo, 0, <<>>)
    /\ DialogOnly

\* A confirmDelete that does not look at the checkbox.
UploadConfirmDelete_Unchecked ==
    /\ UploadDialogShown
    /\ DeleteVideoCall(dialogs.videoToDelete)
    /\ dialogs' = [dialogs EXCEPT !.uploadShowDeleteModal = FALSE,
                                  !.videoToDelete = NoVideo,
                                  !.uploadDeleteConfirmed = FALSE]
    /\ last' = Step("uploadConfirmDelete", dialogs.videoToDelete, "deleted",
                    <<Toast("success", "video deleted", <<>>)>>)

\* confirmDelete() of UploadProgress
UploadConfirmDelete ==
    /\ UploadDialogShown
    /\ IF dialogs.uploadDeleteConfirmed
       THEN /\ DeleteVideoCall(dialogs.videoToDelete)
            /\ dialogs' = [dialogs EXCEPT !.uploadShowDeleteModal = FALSE,
                                          !.videoToDelete = NoVideo,
                                          !.uploadDeleteConfirmed = FALSE]
            /\ last' = Step("uploadConfirmDelete", dialogs.videoToDelete, "deleted",
                            <<Toast("success", "video deleted", <<>>)>>)
       ELSE /\ last' = Step("uploadConfirmDelete", dialogs.videoToDelete, "ignored", <<>>)
            /\ UNCHANGED <<hookVars, playerVars, idVars, pageVars, ghostVars, created>>

(***************************************************************************)
(* VideoPlayer: the canvas and region capture                              *)
(***************************************************************************)
\* The frame of a player handler that touches neither the hook nor the timers.
PlayerOnly ==
    /\ UNCHANGED hookVars
    /\ UNCHANGED <<playerIntervals, playerResetTimers, nextVideoId, edits, nextObjectId, created>>

\* Sizes the video element is rendered at (videoRect.width x videoRect.height).
CanvasSizes == {[width |-> 40, height |-> 15]}

\* initializeCanvas(), once the video reports its intrinsic size: the canvas takes
\* the rendered size of the video element.  Setting canvas.width clears the
\* canvas; the redraw effect runs after it when canvasInitialized changed.
InitializeCanvas(size) ==
    /\ showVideoPlayer
    /\ player.videoUrl # NoVideo
    /\ canvas' = [width |-> size.width, height |-> size.height,
                   shown |-> IF player.canvasInitialized THEN Blank
                             ELSE Redrawn(player.drawnAreas)]
    /\ player' = [player EXCEPT !.canvasInitialized = TRUE]
    /\ last' = Step("initializeCanvas", NoVideo, 0, <<>>)
    /\ UNCHANGED nextAreaId
    /\ PlayerOnly
    /\ UNCHANGED <<pageVars, ghostVars>>

\* getCanvasCoordinates(e); raw is (e.clientX - rect.left, e.clientY - rect.top).
getCanvasCoordinates(raw) ==
    [x |-> Max(0, Min(raw.x, canvas.width)), y |-> Max(0, Min(raw.y, canvas.height))]

\* The hit test of handleMouseDown in erase mode.
HitsArea(area, coords) ==
    IF area.type = "rectangle" /\ area.startPoint # NoPoint /\ area.endPoint # NoPoint
    THEN LET minX == Min(area.startPoint.x, area.endPoint.x)
             maxX == Max(area.startPoint.x, area.endPoint.x)
             minY == Min(area.startPoint.y, area.endPoint.y)
             maxY == Max(area.startPoint.y, area.endPoint.y)
         IN coords.x >= minX /\ coords.x <= maxX /\ coords.y >= minY /\ coords.y <= maxY
    ELSE IF area.type = "path" /\ Len(area.points) > 0
    THEN \E i \in DOMAIN area.points :
            /\ Abs(area.points[i].x - coords.x) < EraseRadius
            /\ Abs(area.points[i].y - coords.y) < EraseRadius
    ELSE FALSE

\* A search that returns the last area hit instead of the first.
ClickedArea_Latest(areas, coords) ==
    IF \E i \in DOMAIN areas : HitsArea(areas[i], coords)
    THEN CHOOSE i \in DOMAIN areas :
            HitsArea(areas[i], coords)
            /\ \A j \in (i + 1)..Len(areas) : ~HitsArea(areas[j], coords)
    ELSE 0

\* drawnAreas.find(hit test): the index of the first area hit, 0 when none is.
ClickedArea(areas, coords) ==
    IF \E i \in DOMAIN areas : HitsArea(areas[i], coords)
    THEN CHOOSE i \in DOMAIN areas :
            HitsArea(areas[i], coords) /\ \A j \in 1..(i - 1) : ~HitsArea(areas[j], coords)
    ELSE 0

\* prev.filter((area) => area.id !== id)
RemoveArea(areas, id) == SeqFilter(areas, {a \in Range(areas) : a.id # id})

\* The rectangle newArea of handleMouseUp.
RectangleArea(id, start, coords) ==
    [id |-> id, type |-> "rectangle", points |-> <<>>,
     startPoint |-> [x |-> Min(start.x, coords.x), y |-> Min(start.y, coords.y)],
     endPoint |-> [x |-> Max(start.x, coords.x), y |-> Max(start.y, coords.y)]]

\* A size test that accepts a side of exactly the minimum.
RectangleLargeEnough_Inclusive(start, coords) ==
    Abs(coords.x - start.x) >= MinRectSize /\ Abs(coords.y - start.y) >= MinRectSize

\* width > 5 && height > 5
RectangleLargeEnough(start, coords) ==
    Abs(coords.x - start.x) > MinRectSize /\ Abs(coords.y - start.y) > MinRectSize

\* A distance test that closes a path whose ends are exactly the distance apart.
FarApart_Inclusive(p, q) ==
    (p.x - q.x) * (p.x - q.x) + (p.y - q.y) * (p.y - q.y) >= CloseDistance * CloseDistance

\* Math.sqrt(dx^2 + dy^2) > 30, decided on the squares (coordinates are integers).
FarApart(p, q) ==
    (p.x - q.x) * (p.x - q.x) + (p.y - q.y) * (p.y - q.y) > CloseDistance * CloseDistance

\* closedPath of handleMouseUp.
ClosedPath(path) ==
    IF Len(path) > 2 /\ FarApart(path[1], path[Len(path)])
    THEN Append(path, path[1])
    ELSE path

\* The path newArea of handleMouseUp.
PathArea(id, path) ==
    [id |-> id, type |-> "path", points |-> ClosedPath(path),
     startPoint |-> NoPoint, endPoint |-> NoPoint]

\* useEffect(() => { if (canvasInitialized) redrawCanvas() }, [drawnAreas,
\* canvasInitialized, redrawCanvas]) after a handler took the player from p to q.
RedrawEffect(shown, p, q) ==
    IF q.canvasInitialized /\ (~p.canvasInitialized \/ q.drawnAreas # p.drawnAreas)
    THEN Redrawn(q.drawnAreas)
    ELSE shown

\* The stroke handleMouseMove draws for the freehand points captured so far.
PathPreview(path) ==
    IF Len(path) > 1
    THEN [id |-> -1, type |-> "path", points |-> path,
          startPoint |-> NoPoint, endPoint |-> NoPoint]
    ELSE NoArea

\* The canvas after handleMouseMove took the player from p to q: nothing when the
\* handler returned early or in erase mode; otherwise redrawCanvas() and the preview.
MovePainted(shown, p, q) ==
    IF ~p.isDrawing \/ ~p.isMouseDown \/ ~p.canvasInitialized \/ p.isErasing
    THEN shown
    ELSE [areas |-> p.drawnAreas,
          preview |-> IF p.drawingMode = "rectangle" /\ p.rectangleStart # NoPoint
                      THEN q.currentRectangle
                      ELSE IF p.drawingMode = "free" THEN PathPreview(q.currentPath)
                      ELSE NoArea]

\* handleMouseDown(e)
HandleMouseDown(raw) ==
    /\ showVideoPlayer
    /\ LET coords == getCanvasCoordinates(raw)
           hit == ClickedArea(player.drawnAreas, coords)
       IN IF ~player.isDrawing \/ ~player.canvasInitialized
          THEN /\ UNCHANGED player
               /\ last' = Step("handleMouseDown", NoVideo, [kind |-> "ignored", at |-> NoPoint], <<>>)
          ELSE IF player.isErasing
          THEN /\ player' = [player EXCEPT
                     !.isMouseDown = TRUE,
                     !.drawnAreas = IF hit # 0 THEN RemoveArea(@, @[hit].id) ELSE @]
               /\ last' = Step("handleMouseDown", NoVideo, [kind |-> "erase", at |-> coords], <<>>)
          ELSE IF player.drawingMode = "rectangle"
          THEN /\ player' = [player EXCEPT !.isMouseDown = TRUE,
                                           !.rectangleStart = coords,
                                           !.currentRectangle = NoArea]
               /\ last' = Step("handleMouseDown", NoVideo, [kind |-> "rectangle", at |-> coords], <<>>)
          ELSE /\ player' = [player EXCEPT !.isMouseDown = TRUE,
                                           !.currentPath = <<coords>>]
               /\ last' = Step("handleMouseDown", NoVideo, [kind |-> "free", at |-> coords], <<>>)
    /\ canvas' = [canvas EXCEPT !.shown = RedrawEffect(@, player, player')]
    /\ UNCHANGED nextAreaId
    /\ PlayerOnly
    /\ UNCHANGED <<pageVars, ghostVars>>

\* handleMouseMove(e)
HandleMouseMove(raw) ==
    /\ showVideoPlayer
    /\ LET coords == getCanvasCoordinates(raw)
           start == player.rectangleStart
       IN IF ~player.isDrawing \/ ~player.isMouseDown \/ ~player.canvasInitialized
          THEN /\ UNCHANGED player
               /\ last' = Step("handleMouseMove", NoVideo, [kind |-> "ignored", at |-> NoPoint], <<>>)
          ELSE IF player.isErasing
          THEN /\ UNCHANGED player
               /\ last' = Step("handleMouseMove", NoVideo, [kind |-> "erase", at |-> NoPoint], <<>>)
          ELSE IF player.drawingMode = "rectangle" /\ start # NoPoint
          THEN /\ player' = [player EXCEPT !.currentRectangle =
                                [RectangleArea(0, start, coords) EXCEPT !.id = -1]]
               /\ last' = Step("handleMouseMove", NoVideo, [kind |-> "rectangle", at |-> coords], <<>>)
          ELSE IF player.drawingMode = "free"
          THEN /\ Len(player.currentPath) < MaxPathLen
               /\ player' = [player EXCEPT !.currentPath = Append(@, coords)]
               /\ last' = Step("handleMouseMove", NoVideo, [kind |-> "free", at |-> coords], <<>>)
          ELSE /\ UNCHANGED player
               /\ last' = Step("handleMouseMove", NoVideo, [kind |-> "none", at |-> NoPoint], <<>>)
    /\ canvas' = [canvas EXCEPT !.shown = MovePainted(@, player, player')]
    /\ UNCHANGED nextAreaId
    /\ PlayerOnly
    /\ UNCHANGED <<pageVars, ghostVars>>

\* handleMouseUp(e); the canvas binds it to onMouseUp and to onMouseLeave.
HandleMouseUp(raw) ==
    /\ showVideoPlayer
    /\ LET coords == getCanvasCoordinates(raw)
           start == player.rectangleStart
           path == player.currentPath
       IN IF ~player.isDrawing \/ ~player.isMouseDown \/ ~player.canvasInitialized
          THEN /\ UNCHANGED <<player, nextAreaId>>
               /\ last' = Step("handleMouseUp", NoVideo, [kind |-> "ignored", at |-> NoPoint], <<>>)
          ELSE IF player.isErasing
          THEN /\ player' = [player EXCEPT !.isMouseDown = FALSE]
               /\ last' = Step("handleMouseUp", NoVideo, [kind |-> "erase", at |-> coords], <<>>)
               /\ UNCHANGED nextAreaId
          ELSE IF player.drawingMode = "rectangle" /\ start # NoPoint
          THEN IF RectangleLargeEnough(start, coords)
               THEN /\ nextAreaId <= MaxAreaIds
                    /\ player' = [player EXCEPT
                          !.isMouseDown = FALSE,
                          !.drawnAreas = Append(@, RectangleArea(nextAreaId, start, coords)),
                          !.rectangleStart = NoPoint,
                          !.currentRectangle = NoArea,
                          !.currentPath = <<>>]
                    /\ nextAreaId' = nextAreaId + 1
                    /\ last' = Step("handleMouseUp", NoVideo, [kind |-> "rectangle", at |-> coords], <<>>)
               ELSE /\ player' = [player EXCEPT !.isMouseDown = FALSE,
                                                !.rectangleStart = NoPoint,
                                                !.currentRectangle = NoArea,
                                                !.currentPath = <<>>]
                    /\ UNCHANGED nextAreaId
                    /\ last' = Step("handleMouseUp", NoVideo, [kind |-> "discarded", at |-> coords], <<>>)
          ELSE IF player.drawingMode = "free" /\ Len(path) > 2
          THEN /\ nextAreaId <= MaxAreaIds
               /\ player' = [player EXCEPT
                     !.isMouseDown = FALSE,
                     !.drawnAreas = Append(@, PathArea(nextAreaId, path)),
                     !.currentPath = <<>>]
               /\ nextAreaId' = nextAreaId + 1
               /\ last' = Step("handleMouseUp", NoVideo, [kind |-> "path", at |-> coords], <<>>)
          ELSE /\ player' = [player EXCEPT !.isMouseDown = FALSE, !.currentPath = <<>>]
               /\ UNCHANGED nextAreaId
               /\ last' = Step("handleMouseUp", NoVideo, [kind |-> "discarded", at |-> coords], <<>>)
    /\ canvas' = [canvas EXCEPT !.shown = RedrawEffect(@, player, player')]
    /\ PlayerOnly
    /\ UNCHANGED <<pageVars, ghostVars>>

\* const currentTime = videoElement?.currentTime || 0
CapturedTime(element) == IF element.currentTime = 0 THEN 0 ELSE element.currentTime

\* const wasPaused = videoElement?.paused || true
WasPaused(element) == element.paused \/ TRUE

\* toggleDrawing without lines 437-441: turning drawing mode off keeps the
\* transient capture state.
ToggleDrawing_KeepCapture ==
    /\ showVideoPlayer
    /\ IF ~player.isDrawing
       THEN /\ player' = [player EXCEPT !.isDrawing = TRUE]
            /\ videoElement' = [videoElement EXCEPT !.paused = TRUE]
            /\ atToggleOn' = videoElement
            /\ UNCHANGED restoreTimers
       ELSE /\ Len(restoreTimers) < MaxTimers
            /\ player' = [player EXCEPT !.isDrawing = FALSE, !.isErasing = FALSE]
            /\ restoreTimers' = Append(restoreTimers,
                                       [currentTime |-> CapturedTime(videoElement),
                                        wasPaused |-> WasPaused(videoElement)])
            /\ UNCHANGED <<videoElement, atToggleOn>>
    /\ last' = Step("toggleDrawing", NoVideo,
                     [on |-> ~player.isDrawing, capturing |-> player.isMouseDown], <<>>)
    /\ canvas' = [canvas EXCEPT !.shown =
                      IF ~player.isDrawing /\ player.canvasInitialized
                      THEN Redrawn(player.drawnAreas) ELSE @]
    /\ UNCHANGED nextAreaId
    /\ PlayerOnly
    /\ UNCHANGED <<dialogs, absentRuns>>

\* toggleDrawing()
ToggleDrawing ==
    /\ showVideoPlayer
    /\ IF ~player.isDrawing
       THEN /\ player' = [player EXCEPT !.isDrawing = TRUE]
            /\ videoElement' = [videoElement EXCEPT !.paused = TRUE]
            /\ atToggleOn' = videoElement
            /\ UNCHANGED restoreTimers
       ELSE /\ Len(restoreTimers) < MaxTimers
            /\ player' = [player EXCEPT !.isDrawing = FALSE, !.currentPath = <<>>,
                                        !.isMouseDown = FALSE, !.isErasing = FALSE,
                                        !.rectangleStart = NoPoint,
                                        !.currentRectangle = NoArea]
            /\ restoreTimers' = Append(restoreTimers,
                                       [currentTime |-> CapturedTime(videoElement),
                                        wasPaused |-> WasPaused(videoElement)])
            /\ UNCHANGED <<videoElement, atToggleOn>>
    /\ last' = Step("toggleDrawing", NoVideo,
                     [on |-> ~player.isDrawing, capturing |-> player.isMouseDown], <<>>)
    /\ canvas' = [canvas EXCEPT !.shown =
                      IF ~player.isDrawing /\ player.canvasInitialized
                      THEN Redrawn(player.drawnAreas) ELSE @]
    /\ UNCHANGED nextAreaId
    /\ PlayerOnly
    /\ UNCHANGED <<dialogs, absentRuns>>

\* The callback of the setTimeout(..., 50) of toggleDrawing: it sets the position
\* and resumes playback when the video was not paused.
RestoreTimeout ==
    /\ restoreTimers # <<>>
    /\ restoreTimers' = Tail(restoreTimers)
    /\ videoElement' = [currentTime |-> Head(restoreTimers).currentTime,
                        paused |-> IF ~Head(restoreTimers).wasPaused THEN FALSE
                                   ELSE videoElement.paused]
    /\ last' = Step("restoreTimeout", NoVideo, 0, <<>>)
    /\ UNCHANGED <<hookVars, playerVars, idVars, created, dialogs, ghostVars>>

\* The play / pause button of the browser's controls, shown while not drawing.
SetPaused(paused) ==
    /\ showVideoPlayer
    /\ player.videoUrl # NoVideo
    /\ ~player.isDrawing
    /\ videoElement.paused # paused
    /\ videoElement' = [videoElement EXCEPT !.paused = paused]
    /\ last' = Step("setPaused", NoVideo, paused, <<>>)
    /\ UNCHANGED <<hookVars, playerVars, idVars, created, dialogs, restoreTimers,
                   ghostVars>>

\* Playback advances the position of a video that is playing.
TimeUpdate ==
    /\ showVideoPlayer
    /\ ~videoElement.paused
    /\ videoElement.currentTime < MaxTime
    /\ videoElement' = [videoElement EXCEPT !.currentTime = @ + 1]
    /\ last' = Step("timeUpdate", NoVideo, 0, <<>>)
    /\ UNCHANGED <<hookVars, playerVars, idVars, created, dialogs, restoreTimers,
                   ghostVars>>

\* The rectangle / freehand mode buttons: setDrawingMode(mode); setIsErasing(false).
SetDrawingMode(mode) ==
    /\ showVideoPlayer
    /\ player.isDrawing
    /\ player' = [player EXCEPT !.drawingMode = mode, !.isErasing = FALSE]
    /\ last' = Step("setDrawingMode", NoVideo, mode, <<>>)
    /\ UNCHANGED <<canvas, nextAreaId>>
    /\ PlayerOnly
    /\ UNCHANGED <<pageVars, ghostVars>>

\* The eraser button: setIsErasing(!isErasing).
ToggleErasing ==
    /\ showVideoPlayer
    /\ player.isDrawing
    /\ player' = [player EXCEPT !.isErasing = ~@]
    /\ last' = Step("toggleErasing", NoVideo, ~player.isErasing, <<>>)
    /\ UNCHANGED <<canvas, nextAreaId>>
    /\ PlayerOnly
    /\ UNCHANGED <<pageVars, ghostVars>>

(***************************************************************************)
(* VideoPlayer: export of the drawn regions                                *)
(***************************************************************************)
NoName == [text |-> "", n |-> 0]     \* an absent objectName argument

\* 0.85 + Math.random() * 0.15, in percent.
NewConfidences == {85}

\* const finalObjectName = objectName || `Object(${nextObjectNumber})`, where the
\* number is read from the `videos` of the closure.
FinalObjectName(vs, videoId, objectName) ==
    IF objectName # NoName THEN objectName
    ELSE ObjectName(FindVideo(vs, videoId).totalObjectsCreated + 1)

\* const objectName = `Object(${detectedObjects.length + index + 1})`; index counts
\* from 1 here.
ExportName(detectedObjects, index) == ObjectName(Len(detectedObjects) + index)

RECURSIVE AddObjects(_, _, _, _, _, _, _)
\* drawnAreas.forEach(... onAddNewObject(video.id, objectName) ...): the video list
\* after the calls for the names from position i on.  closure is the `videos` the
\* addNewObjectToVideo closure holds, firstId the first fresh object id.
AddObjects(vs, closure, videoId, names, confidences, firstId, i) ==
    IF i > Len(names) THEN vs
    ELSE AddObjects(
            AddObjectResult(vs, videoId,
                NewObject(videoId, firstId + i - 1,
                          FinalObjectName(closure, videoId, names[i]), confidences[i])),
            closure, videoId, names, confidences, firstId, i + 1)

\* saveDrawingsAndDownloadWebVTT() up to the await of the cue-file request.
SaveDrawingsAndDownloadWebVTT ==
    /\ showVideoPlayer
    /\ LET video == selectedVideo
           n == Len(player.drawnAreas)
           names == [i \in 1..n |-> ExportName(selectedVideoObjects, i)]
           cleared == [player EXCEPT !.drawnAreas = <<>>]
       IN IF video.id # NoVideo
          THEN /\ nextObjectId + n - 1 <= MaxObjectIds
               /\ vttInFlight < MaxTimers
               /\ \E confidences \in [1..n -> NewConfidences] :
                     videos' = AddObjects(videos, videos, video.id, names, confidences,
                                          nextObjectId, 1)
               /\ nextObjectId' = nextObjectId + n
               /\ created' = [created EXCEPT ![video.id] = @ \o
                                [i \in 1..n |-> FinalObjectName(videos, video.id, names[i])]]
               /\ vttInFlight' = vttInFlight + 1
               /\ player' = Rendered(cleared, videos', selectedVideoId, showVideoPlayer,
                                     IF n > 0 THEN {video.id} ELSE {})
               /\ last' = Step("saveDrawings", video.id, Request("requested"),
                               IF n > 0
                               THEN <<Toast("success", "new objects detected",
                                            [i \in 1..n |->
                                                FinalObjectName(videos, video.id, names[i])])>>
                               ELSE <<>>)
          ELSE /\ player' = cleared
               /\ last' = Step("saveDrawings", NoVideo, Request("no video"),
                               <<Toast("error", "no video selected", <<>>)>>)
               /\ UNCHANGED <<videos, nextObjectId, created, vttInFlight>>
    /\ UNCHANGED <<selectedVideoId, showVideoPlayer, adminPanelVisible, isDetecting,
                   detectionProgress, hasRunDetection, selectVideos, detectIntervals,
                   resetTimers, closeTimers, uploadsInFlight>>
    /\ canvas' = [canvas EXCEPT !.shown =
                      IF player.canvasInitialized THEN Redrawn(<<>>) ELSE @]
    /\ UNCHANGED <<playerIntervals, playerResetTimers, nextVideoId, edits, nextAreaId>>
    /\ UNCHANGED <<pageVars, ghostVars>>

\* The response of GET /api/videos/:id/vtt: the download, or the failure notice.
VttResponse(ok) ==
    /\ vttInFlight > 0
    /\ vttInFlight' = vttInFlight - 1
    /\ last' = Step("vttResponse", NoVideo, ok,
                    IF ok THEN <<Toast("success", "WebVTT downloaded", <<>>)>>
                    ELSE <<Toast("error", "WebVTT download failed", <<>>)>>)
    /\ UNCHANGED <<videos, selectedVideoId, showVideoPlayer, adminPanelVisible,
                   isDetecting, detectionProgress, hasRunDetection, selectVideos,
                   detectIntervals, resetTimers, closeTimers, uploadsInFlight>>
    /\ UNCHANGED <<playerVars, idVars, created>>
    /\ UNCHANGED <<pageVars, ghostVars>>

\* downloadWebVTT() of the hook up to the await of the cue-file request; the
\* response is VttResponse.
DownloadWebVTT ==
    /\ IF selectedVideo.id = NoVideo
       THEN /\ last' = Step("downloadWebVTT", NoVideo, Request("no video"), <<>>)
            /\ UNCHANGED vttInFlight
       ELSE /\ vttInFlight < MaxTimers
            /\ vttInFlight' = vttInFlight + 1
            /\ last' = Step("downloadWebVTT", selectedVideo.id, Request("requested"), <<>>)
    /\ UNCHANGED <<videos, selectedVideoId, showVideoPlayer, adminPanelVisible,
                   isDetecting, detectionProgress, hasRunDetection, selectVideos,
                   detectIntervals, resetTimers, closeTimers, uploadsInFlight>>
    /\ UNCHANGED <<playerVars, idVars, created>>
    /\ UNCHANGED <<pageVars, ghostVars>>

\* addNewObjectToVideo(videoId, objectName), called for one drawn region: the player
\* calls it once per region of the list it exports, so each call uses up a region.
AddNewObjectToVideo(videoId, objectName, confidence) ==
    /\ nextObjectId <= MaxObjectIds
    /\ nextAreaId <= MaxAreaIds
    /\ LET name == FinalObjectName(videos, videoId, objectName)
       IN /\ videos' = AddObjectResult(videos, videoId,
                            NewObject(videoId, nextObjectId, name, confidence))
          /\ created' = IF HasVideo(videos, videoId)
                        THEN [created EXCEPT ![videoId] = Append(@, name)]
                        ELSE created
          /\ last' = Step("addNewObjectToVideo", videoId, name, <<>>)
    /\ nextObjectId' = nextObjectId + 1
    /\ nextAreaId' = nextAreaId + 1
    /\ player' = Rendered(player, videos', selectedVideoId, showVideoPlayer,
                          Recreated(videos, videoId))
    /\ UNCHANGED <<selectedVideoId, showVideoPlayer, adminPanelVisible, isDetecting,
                   detectionProgress, hasRunDetection, selectVideos, detectIntervals,
                   resetTimers, closeTimers, uploadsInFlight, vttInFlight>>
    /\ UNCHANGED <<canvas, playerIntervals, playerResetTimers, nextVideoId, edits>>
    /\ UNCHANGED <<pageVars, ghostVars>>

(***************************************************************************)
(* VideoPlayer: the object list, the detail view and the delete dialog     *)
(***************************************************************************)
\* The frame of a list / dialog handler: it writes state cells of the player only.
ListOnly ==
    /\ UNCHANGED hookVars
    /\ UNCHANGED <<canvas, playerIntervals, playerResetTimers, idVars, created>>

\* The player shows the list rows: the list is open, no detail view, detection has
\* run and the catalog is not empty.
ListShown ==
    /\ showVideoPlayer
    /\ selectedVideo.id # NoVideo
    /\ player.showObjectList
    /\ player.selectedObjectId = NoObject
    /\ hasRunDetection
    /\ Len(selectedVideoObjects) > 0

\* The "detected objects" button.
ToggleObjectList ==
    /\ showVideoPlayer
    /\ selectedVideo.id # NoVideo
    /\ player' = IF ~player.showObjectList /\ player.selectedObjectId = NoObject
                 THEN [player EXCEPT !.showObjectList = TRUE]
                 ELSE [player EXCEPT !.showObjectList = FALSE,
                                     !.selectedObjectId = NoObject]
    /\ last' = Step("toggleObjectList", NoVideo, ~player.showObjectList, <<>>)
    /\ ListOnly
    /\ UNCHANGED <<pageVars, ghostVars>>

\* The checkbox of a list row.
ToggleObjectSelection(objectId) ==
    /\ ListShown
    /\ objectId \in ObjectIds(selectedVideoObjects)
    /\ player' = [player EXCEPT !.selectedObjectIds =
                    IF objectId \in Range(@)
                    THEN SeqFilter(@, Range(@) \ {objectId})
                    ELSE Append(@, objectId)]
    /\ last' = Step("toggleObjectSelection", NoVideo, objectId, <<>>)
    /\ ListOnly
    /\ UNCHANGED <<pageVars, ghostVars>>

\* The info button of a list row: setSelectedObjectId(object.id).
OpenObjectDetail(objectId) ==
    /\ ListShown
    /\ objectId \in ObjectIds(selectedVideoObjects)
    /\ player' = [player EXCEPT !.selectedObjectId = objectId]
    /\ last' = Step("openObjectDetail", NoVideo, objectId, <<>>)
    /\ ListOnly
    /\ UNCHANGED <<pageVars, ghostVars>>

\* handleBackToObjectList()
HandleBackToObjectList ==
    /\ showVideoPlayer
    /\ player.selectedObjectId # NoObject
    /\ player' = [player EXCEPT !.selectedObjectId = NoObject]
    /\ last' = Step("handleBackToObjectList", NoVideo, 0, <<>>)
    /\ ListOnly
    /\ UNCHANGED <<pageVars, ghostVars>>

\* The "delete selected" button under the list.
BulkDeleteClick ==
    /\ ListShown
    /\ player' = IF Len(player.selectedObjectIds) > 0
                 THEN [player EXCEPT !.objectToDelete = BULK_DELETE,
                                     !.showDeleteConfirmModal = TRUE,
                                     !.deleteConfirmed = FALSE]
                 ELSE player
    /\ last' = Step("bulkDeleteClick", NoVideo, Len(player.selectedObjectIds), <<>>)
    /\ ListOnly
    /\ UNCHANGED <<pageVars, ghostVars>>

\* The delete button of the detail view: handleDeleteClick(selectedObjectId).
HandleDeleteClick ==
    /\ showVideoPlayer
    /\ player.selectedObjectId # NoObject
    /\ player' = [player EXCEPT !.objectToDelete = player.selectedObjectId,
                                !.showDeleteConfirmModal = TRUE,
                                !.deleteConfirmed = FALSE]
    /\ last' = Step("handleDeleteClick", NoVideo, player.selectedObjectId, <<>>)
    /\ ListOnly
    /\ UNCHANGED <<pageVars, ghostVars>>

\* The checkbox of the delete dialog: setDeleteConfirmed(e.target.checked).
SetDeleteConfirmed(checked) ==
    /\ showVideoPlayer
    /\ player.showDeleteConfirmModal
    /\ player' = [player EXCEPT !.deleteConfirmed = checked]
    /\ last' = Step("setDeleteConfirmed", NoVideo, checked, <<>>)
    /\ ListOnly
    /\ UNCHANGED <<pageVars, ghostVars>>

\* cancelDelete()
CancelDelete ==
    /\ showVideoPlayer
    /\ player.showDeleteConfirmModal
    /\ player' = [player EXCEPT !.showDeleteConfirmModal = FALSE,
                                !.objectToDelete = NoObject,
                                !.deleteConfirmed = FALSE]
    /\ last' = Step("cancelDelete", NoVideo, 0, <<>>)
    /\ ListOnly
    /\ UNCHANGED <<pageVars, ghostVars>>

\* A delete that stops after the first id of the list.
DeleteEach_FirstOnly(vs, videoId, ids) ==
    IF ids = <<>> THEN vs ELSE DeleteObjectResult(vs, videoId, Head(ids))

RECURSIVE DeleteEach(_, _, _)
\* selectedObjectIds.forEach((objectId) => onDeleteObject(video.id, objectId)): the
\* updaters of the calls applied in turn.
DeleteEach(vs, videoId, ids) ==
    IF ids = <<>> THEN vs
    ELSE DeleteEach(DeleteObjectResult(vs, videoId, Head(ids)), videoId, Tail(ids))

\* confirmDelete()
ConfirmDelete ==
    /\ showVideoPlayer
    /\ player.showDeleteConfirmModal
    /\ LET video == selectedVideo
           target == player.objectToDelete
           closed == [player EXCEPT !.showDeleteConfirmModal = FALSE,
                                    !.objectToDelete = NoObject,
                                    !.deleteConfirmed = FALSE]
       IN IF target = NoObject \/ ~player.deleteConfirmed \/ video.id = NoVideo
          THEN /\ UNCHANGED <<videos, player>>
               /\ last' = Step("confirmDelete", video.id,
                               [kind |-> "ignored", ids |-> <<>>], <<>>)
          ELSE IF target = BULK_DELETE
          THEN /\ videos' = DeleteEach(videos, video.id, player.selectedObjectIds)
               /\ player' = Rendered([closed EXCEPT !.selectedObjectIds = <<>>],
                                     videos', selectedVideoId, showVideoPlayer,
                                     IF Len(player.selectedObjectIds) > 0
                                     THEN {video.id} ELSE {})
               /\ last' = Step("confirmDelete", video.id,
                               [kind |-> "bulk", ids |-> player.selectedObjectIds],
                               <<Toast("success", "objects deleted",
                                       <<Len(player.selectedObjectIds)>>)>>)
          ELSE /\ videos' = DeleteObjectResult(videos, video.id, target)
               /\ player' = Rendered([closed EXCEPT !.selectedObjectId = NoObject],
                                     videos', selectedVideoId, showVideoPlayer,
                                     {video.id})
               /\ last' = Step("confirmDelete", video.id,
                               [kind |-> "single", ids |-> <<target>>],
                               <<Toast("success", "object deleted", <<>>)>>)
    /\ UNCHANGED <<selectedVideoId, showVideoPlayer, adminPanelVisible, isDetecting,
                   detectionProgress, hasRunDetection, selectVideos, detectIntervals,
                   resetTimers, closeTimers, uploadsInFlight, vttInFlight>>
    /\ UNCHANGED <<canvas, playerIntervals, playerResetTimers, idVars, created>>
    /\ UNCHANGED <<pageVars, ghostVars>>

(***************************************************************************)
(* VideoPlayer: the detection run started by the refresh button            *)
(***************************************************************************)
\* The refresh button of the list header: the player's runObjectDetection().  The
\* interval callback keeps the onRunObjectDetection of this render, that is the
\* hook's runObjectDetection with the isDetecting of this render.
PlayerRunObjectDetection ==
    /\ showVideoPlayer
    /\ selectedVideo.id # NoVideo
    /\ player.showObjectList
    /\ player.selectedObjectId = NoObject
    /\ playerIntervals[<<selectedVideo.id, isDetecting>>] < MaxTimers
    /\ playerIntervals' = [playerIntervals EXCEPT ![<<selectedVideo.id, isDetecting>>] = @ + 1]
    /\ player' = [player EXCEPT !.isDetecting = TRUE, !.detectionProgress = 0]
    /\ last' = Step("playerRunObjectDetection", selectedVideo.id, isDetecting, <<>>)
    /\ UNCHANGED hookVars
    /\ UNCHANGED <<canvas, playerResetTimers, idVars, created>>
    /\ UNCHANGED <<pageVars, ghostVars>>

\* One firing of the interval callback of the player's runObjectDetection() started
\* for videoId in a render that saw the hook's isDetecting = seen.
PlayerDetectionTick(videoId, seen, inc) ==
    /\ playerIntervals[<<videoId, seen>>] > 0
    /\ IF TickCompletes(player.detectionProgress, inc)
       THEN /\ playerResetTimers < MaxTimers
            /\ playerIntervals' = [playerIntervals EXCEPT ![<<videoId, seen>>] = @ - 1]
            /\ player' = [player EXCEPT !.isDetecting = FALSE,
                                        !.detectionProgress = ProgressDone]
            /\ StartDetection(videoId, seen)
            /\ playerResetTimers' = playerResetTimers + 1
            /\ last' = Step("playerDetectionComplete", videoId,
                            IF seen THEN "ignored" ELSE "started",
                            <<Toast("success", "detection completed", <<>>)>>)
       ELSE /\ player' = [player EXCEPT !.detectionProgress =
                             NextProgress(player.detectionProgress, inc)]
            /\ last' = Step("playerDetectionTick", videoId, inc, <<>>)
            /\ UNCHANGED <<playerIntervals, playerResetTimers, isDetecting,
                           detectionProgress, detectIntervals, absentRuns>>
    /\ UNCHANGED <<videos, selectedVideoId, showVideoPlayer, adminPanelVisible,
                   hasRunDetection, selectVideos, resetTimers, closeTimers,
                   uploadsInFlight, vttInFlight>>
    /\ UNCHANGED <<canvas, idVars, created>>
    /\ UNCHANGED <<pageVars, atToggleOn>>

\* setTimeout(() => setDetectionProgress(0), 1000) of the player
PlayerResetTimeout ==
    /\ playerResetTimers > 0
    /\ playerResetTimers' = playerResetTimers - 1
    /\ player' = [player EXCEPT !.detectionProgress = 0]
    /\ last' = Step("playerResetTimeout", NoVideo, 0, <<>>)
    /\ UNCHANGED hookVars
    /\ UNCHANGED <<canvas, playerIntervals, idVars, created>>
    /\ UNCHANGED <<pageVars, ghostVars>>

RECURSIVE SumOver(_, _)
\* The sum of the values of f over the keys in S.
SumOver(f, S) ==
    IF S = {} THEN 0
    ELSE LET k == CHOOSE k \in S : TRUE IN f[k] + SumOver(f, S \ {k})

\* The progress timers (setInterval) that are live, the hook's and the player's.
LiveProgressTimers ==
    SumOver(detectIntervals, DOMAIN detectIntervals)
    + SumOver(playerIntervals, DOMAIN playerIntervals)

(***************************************************************************)
(* Spec: the object catalog of the hook.  A video is uploaded and selected, *)
(* detection runs, objects are added the way the player's export adds them  *)
(* (one call per region, named from the length of the catalog it shows),    *)
(* and objects are updated and deleted.                                     *)
(***************************************************************************)
ListedVideoIds == {videos[i].id : i \in DOMAIN videos}

\* The object ids a caller may pass: those of the catalog, and one that is in no
\* catalog.
KnownObjectIds(videoId) ==
    ObjectIds(FindVideo(videos, videoId).detectedObjects)

ValidFiles == {f \in Files : f.isVideo /\ f.size <= MaxFileSize}

Next ==
    \/ \E file \in ValidFiles : HandleFileSelect(file)
    \/ UploadResponse(TRUE)
    \/ \E videoId \in ListedVideoIds : HandleVideoSelect(videoId)
    \/ RunObjectDetection
    \/ \E videoId \in VideoIds : DetectionTick(videoId, 19)
    \/ DetectionResetTimeout
    \/ AddNewObjectToVideo(selectedVideo.id, ExportName(selectedVideoObjects, 1), 85)
    \/ \E videoId \in ListedVideoIds : \E objectId \in KnownObjectIds(videoId) :
          DeleteObjectFromVideo(videoId, objectId)
    \/ \E videoId \in ListedVideoIds : \E objectId \in KnownObjectIds(videoId) :
          \E updates \in Updates : UpdateObjectInVideo(videoId, objectId, updates)
    \/ DeleteSelectedObjects

Spec == Init /\ [][Next]_vars

(***************************************************************************)
(* Properties of the object catalog                                        *)
(***************************************************************************)
\* C1: within one video session generated default names never repeat: no two
\* objects ever created for a video (deleted ones included) received the same
\* name Object(n).
C1_NamesNeverRepeat ==
    \A v \in VideoIds : \A i, j \in DOMAIN created[v] :
        i # j => created[v][i] # created[v][j]

\* C2: in every reachable state a video's totalObjectsCreated is at least the
\* number of objects ever created for it, by detection and by exported regions
\* together, deleted ones counted.
C2_CounterCoversCreated ==
    \A i \in DOMAIN videos :
        videos[i].totalObjectsCreated >= Len(created[videos[i].id])

\* C3: for a given video totalObjectsCreated never decreases across detection,
\* add, update and delete steps, and the delete and update steps leave it unchanged.
C3_CounterNeverDecreases ==
    [][\A i \in DOMAIN videos : \A j \in DOMAIN videos' :
          videos[i].id = videos'[j].id =>
            /\ videos'[j].totalObjectsCreated >= videos[i].totalObjectsCreated
            /\ last'.op \in {"deleteObjectFromVideo", "updateObjectInVideo",
                             "deleteSelectedObjects"}
                 => videos'[j].totalObjectsCreated = videos[i].totalObjectsCreated]_vars

\* A delete has just removed an object of a video for which detection and an
\* export both created objects: the counter still counts all of them.
C3_Witness ==
    /\ last.op = "deleteObjectFromVideo"
    /\ \E i \in DOMAIN videos :
          /\ videos[i].id = last.vid
          /\ videos[i].totalObjectsCreated > Len(DEFAULT_OBJECTS)
          /\ Len(videos[i].detectedObjects) < videos[i].totalObjectsCreated
          /\ last.arg \notin ObjectIds(videos[i].detectedObjects)

\* C4: a detection run that completes on a video whose catalog is non-empty leaves
\* the catalog (objects, order, count) and totalObjectsCreated as they were; two
\* runs in a row yield the default set once.
C4_DetectionKeepsCatalog ==
    [][\A videoId \in VideoIds :
          (/\ last'.op = "detectionComplete"
           /\ last'.vid = videoId
           /\ Len(FindVideo(videos, videoId).detectedObjects) > 0)
          => FindVideo(videos', videoId) = FindVideo(videos, videoId)]_vars

\* A second detection run has just completed on a video that holds the default
\* set of the first run and nothing else.
C4_Witness ==
    /\ last.op = "detectionComplete"
    /\ last.arg = 0
    /\ \E i \in DOMAIN videos :
          /\ videos[i].id = last.vid
          /\ Len(videos[i].detectedObjects) = Len(DEFAULT_OBJECTS)
          /\ Len(created[videos[i].id]) = Len(DEFAULT_OBJECTS)
          /\ videos[i].totalObjectsCreated = Len(DEFAULT_OBJECTS)

\* C13: when a detection run completes on a video whose catalog is empty, the
\* catalog becomes exactly 5 objects named Object(1) .. Object(5) in that order,
\* and hasRunDetection is true.
C13_DetectionFillsEmptyCatalog ==
    [][\A videoId \in VideoIds :
          (/\ last'.op = "detectionComplete"
           /\ last'.vid = videoId
           /\ HasVideo(videos, videoId)
           /\ Len(FindVideo(videos, videoId).detectedObjects) = 0)
          => /\ ObjectNames(FindVideo(videos', videoId).detectedObjects) =
                   <<ObjectName(1), ObjectName(2), ObjectName(3), ObjectName(4),
                     ObjectName(5)>>
             /\ Cardinality(ObjectIds(FindVideo(videos', videoId).detectedObjects)) = 5
             /\ hasRunDetection']_vars

\* A detection run has just filled a catalog that an earlier add and delete had
\* left empty: the five objects are the only ones, and more than five were created.
C13_Witness ==
    /\ last.op = "detectionComplete"
    /\ last.arg = 5
    /\ hasRunDetection
    /\ \E i \in DOMAIN videos :
          /\ videos[i].id = last.vid
          /\ Len(videos[i].detectedObjects) = 5
          /\ videos[i].detectedObjects[5].name = ObjectName(5)
          /\ Len(created[videos[i].id]) > 5

(***************************************************************************)
(* SpecDraw: region capture on the canvas of the open player.  A video is   *)
(* uploaded, selected and opened; the pointer then goes down, moves and     *)
(* goes up (or leaves the canvas) at a few positions, in either drawing     *)
(* mode and in erase mode.  The buttons lie outside the canvas: the pointer *)
(* leaves the canvas, which ends a drag, before it presses one.             *)
(***************************************************************************)
PointerFree == ~player.isMouseDown

\* Pointer positions relative to the canvas.  The second position of UpPoints is
\* below the canvas, where a pointer-leave event reports it.
DownPoints == {[x |-> 0, y |-> 0], [x |-> 12, y |-> 0]}
MovePoints == {[x |-> 30, y |-> 0], [x |-> 31, y |-> 0]}
UpPoints == {[x |-> 5, y |-> 6], [x |-> 6, y |-> 99]}

NextDraw ==
    \/ HandleFileSelect([isVideo |-> TRUE, size |-> 1])
    \/ UploadResponse(TRUE)
    \/ \E videoId \in ListedVideoIds : HandleVideoSelect(videoId)
    \/ OpenVideoPlayer
    \/ \E size \in CanvasSizes : InitializeCanvas(size)
    \/ PointerFree /\ ToggleDrawing
    \/ RestoreTimeout
    \/ PointerFree /\ \E mode \in {"rectangle", "free"} : SetDrawingMode(mode)
    \/ PointerFree /\ ToggleErasing
    \/ \E raw \in DownPoints : HandleMouseDown(raw)
    \/ \E raw \in MovePoints : HandleMouseMove(raw)
    \/ \E raw \in UpPoints : HandleMouseUp(raw)

SpecDraw == Init /\ [][NextDraw]_vars

(***************************************************************************)
(* Properties of region capture                                            *)
(***************************************************************************)
\* C7: in rectangle mode (drawing on, canvas initialized, not erasing) the pointer
\* going down at a sets the anchor to a, and the pointer going up or leaving at b
\* appends exactly one region of kind rectangle with startPoint (min x, min y) and
\* endPoint (max x, max y) when |dx| > 5 and |dy| > 5 and leaves the region list
\* unchanged otherwise; either way the anchor and the preview are reset.
C7_RectangleDrag ==
    [][/\ (/\ last'.op = "handleMouseDown"
           /\ player.isDrawing /\ player.canvasInitialized /\ ~player.isErasing
           /\ player.drawingMode = "rectangle")
          => player'.rectangleStart = last'.arg.at
       /\ (/\ last'.op = "handleMouseUp"
           /\ player.isDrawing /\ player.canvasInitialized /\ ~player.isErasing
           /\ player.isMouseDown
           /\ player.drawingMode = "rectangle" /\ player.rectangleStart # NoPoint)
          => LET a == player.rectangleStart
                 b == last'.arg.at
                 old == player.drawnAreas
                 new == player'.drawnAreas
             IN /\ IF Abs(b.x - a.x) > MinRectSize /\ Abs(b.y - a.y) > MinRectSize
                   THEN /\ Len(new) = Len(old) + 1
                        /\ SubSeq(new, 1, Len(old)) = old
                        /\ new[Len(new)].type = "rectangle"
                        /\ new[Len(new)].startPoint =
                              [x |-> IF a.x < b.x THEN a.x ELSE b.x,
                               y |-> IF a.y < b.y THEN a.y ELSE b.y]
                        /\ new[Len(new)].endPoint =
                              [x |-> IF a.x < b.x THEN b.x ELSE a.x,
                               y |-> IF a.y < b.y THEN b.y ELSE a.y]
                   ELSE new = old
                /\ player'.rectangleStart = NoPoint
                /\ player'.currentRectangle = NoArea]_vars

\* A drag has just committed a rectangle neither of whose corners is the point
\* where the pointer went up: the corners were normalised.
C7_Witness ==
    /\ last.op = "handleMouseUp"
    /\ last.arg.kind = "rectangle"
    /\ Len(player.drawnAreas) > 0
    /\ LET r == player.drawnAreas[Len(player.drawnAreas)]
       IN /\ r.type = "rectangle"
          /\ r.startPoint # last.arg.at
          /\ r.endPoint # last.arg.at
    /\ player.rectangleStart = NoPoint

\* C8: in freehand mode the path collects the pointer positions in capture order;
\* the pointer going up or leaving on a path of more than 2 points appends exactly
\* one region of kind path holding those points, followed by one more point equal
\* to the first exactly when first and last captured point are more than 30 apart;
\* a path of 2 or fewer points appends nothing.  The path in progress is emptied
\* either way.
C8_FreehandStroke ==
    [][/\ (/\ last'.op = "handleMouseMove"
           /\ last'.arg.kind = "free")
          => player'.currentPath = Append(player.currentPath, last'.arg.at)
       /\ (/\ last'.op = "handleMouseUp"
           /\ player.isDrawing /\ player.canvasInitialized /\ ~player.isErasing
           /\ player.isMouseDown
           /\ player.drawingMode = "free")
          => LET path == player.currentPath
                 old == player.drawnAreas
                 new == player'.drawnAreas
                 dx == path[1].x - path[Len(path)].x
                 dy == path[1].y - path[Len(path)].y
             IN /\ IF Len(path) > 2
                   THEN /\ Len(new) = Len(old) + 1
                        /\ SubSeq(new, 1, Len(old)) = old
                        /\ new[Len(new)].type = "path"
                        /\ new[Len(new)].points =
                              IF dx * dx + dy * dy > CloseDistance * CloseDistance
                              THEN path \o <<path[1]>>
                              ELSE path
                   ELSE new = old
                /\ player'.currentPath = <<>>]_vars

\* A stroke has just been committed with the closing point added: the region holds
\* one point more than were captured, and its last point is its first.
C8_Witness ==
    /\ last.op = "handleMouseUp"
    /\ last.arg.kind = "path"
    /\ Len(player.drawnAreas) > 0
    /\ LET r == player.drawnAreas[Len(player.drawnAreas)]
       IN /\ r.type = "path"
          /\ Len(r.points) = MaxPathLen + 1
          /\ r.points[Len(r.points)] = r.points[1]
          /\ r.points[Len(r.points) - 1] # r.points[1]
    /\ player.currentPath = <<>>

\* C9: in erase mode the pointer going down inside the bounding box of a committed
\* rectangle removes exactly one region, the earliest-committed one the point hits
\* (a path is hit when one of its points is within the erase radius on both axes),
\* and leaves the others unchanged and in order; a pointer going down that hits no
\* region leaves the region list unchanged.
C9_EraseRemovesEarliestHit ==
    [][(/\ last'.op = "handleMouseDown"
        /\ player.isDrawing /\ player.canvasInitialized /\ player.isErasing)
       => LET p == last'.arg.at
              old == player.drawnAreas
              new == player'.drawnAreas
              Inside(i) == /\ old[i].type = "rectangle"
                           /\ old[i].startPoint.x <= p.x /\ p.x <= old[i].endPoint.x
                           /\ old[i].startPoint.y <= p.y /\ p.y <= old[i].endPoint.y
              Near(i) == /\ old[i].type = "path"
                         /\ \E k \in DOMAIN old[i].points :
                               /\ Abs(old[i].points[k].x - p.x) < EraseRadius
                               /\ Abs(old[i].points[k].y - p.y) < EraseRadius
              hits == {i \in DOMAIN old : Inside(i) \/ Near(i)}
          IN /\ (\E i \in DOMAIN old : Inside(i))
                => \E k \in hits :
                      /\ \A j \in hits : k <= j
                      /\ new = [i \in 1..(Len(old) - 1) |->
                                   IF i < k THEN old[i] ELSE old[i + 1]]
             /\ hits = {} => new = old]_vars

\* A pointer-down in erase mode has just removed the earlier of two regions it
\* hit: both regions were committed, and the one left is a rectangle holding the
\* point.
C9_Witness ==
    /\ last.op = "handleMouseDown"
    /\ last.arg.kind = "erase"
    /\ nextAreaId = 3
    /\ Len(player.drawnAreas) = 1
    /\ LET r == player.drawnAreas[1]
           p == last.arg.at
       IN /\ r.type = "rectangle"
          /\ r.id = 2
          /\ r.startPoint.x <= p.x /\ p.x <= r.endPoint.x
          /\ r.startPoint.y <= p.y /\ p.y <= r.endPoint.y

(***************************************************************************)
(* SpecExport: export of the drawn regions.  Rectangles are drawn on the    *)
(* open player and exported as catalog objects; objects are deleted between *)
(* exports.                                                                 *)
(***************************************************************************)
NextExport ==
    \/ HandleFileSelect([isVideo |-> TRUE, size |-> 1])
    \/ UploadResponse(TRUE)
    \/ \E videoId \in ListedVideoIds : HandleVideoSelect(videoId)
    \/ OpenVideoPlayer
    \/ \E size \in CanvasSizes : InitializeCanvas(size)
    \/ PointerFree /\ ToggleDrawing
    \/ RestoreTimeout
    \/ HandleMouseDown([x |-> 0, y |-> 0])
    \/ HandleMouseUp([x |-> 6, y |-> 99])
    \/ PointerFree /\ SaveDrawingsAndDownloadWebVTT
    \/ \E ok \in BOOLEAN : VttResponse(ok)
    \/ \E videoId \in ListedVideoIds : \E objectId \in KnownObjectIds(videoId) :
          DeleteObjectFromVideo(videoId, objectId)

SpecExport == Init /\ [][NextExport]_vars

\* C6: an export with n committed regions on a video whose creation counter is c
\* appends exactly n new objects to the end of the catalog, named Object(c+1) ..
\* Object(c+n) in region order, raises the counter to c+n, empties the region list,
\* and its success notice lists exactly those n names.
C6_ExportNamesFromCounter ==
    [][(last'.op = "saveDrawings" /\ selectedVideo.id # NoVideo)
       => LET n == Len(player.drawnAreas)
              c == selectedVideo.totalObjectsCreated
              old == selectedVideoObjects
              after == FindVideo(videos', selectedVideo.id)
              names == [i \in 1..n |-> ObjectName(c + i)]
          IN /\ Len(after.detectedObjects) = Len(old) + n
             /\ SubSeq(after.detectedObjects, 1, Len(old)) = old
             /\ \A i \in 1..n : after.detectedObjects[Len(old) + i].name = names[i]
             /\ after.totalObjectsCreated = c + n
             /\ player'.drawnAreas = <<>>
             /\ n > 0 => /\ Len(last'.toasts) = 1
                         /\ last'.toasts[1].kind = "success"
                         /\ last'.toasts[1].names = names]_vars

(***************************************************************************)
(* SpecList: the object list of the open player.  Detection fills the       *)
(* catalog; rows are ticked and deleted in bulk or one by one through the   *)
(* delete dialog, and deleteObjectFromVideo is also called with ids that    *)
(* are in the catalog, were in it, or never were.                           *)
(***************************************************************************)
\* The rows whose checkbox is ticked, by position in the list.
TickedRows == {1, 3}

RowIds(rows) ==
    {selectedVideoObjects[i].id : i \in rows \cap DOMAIN selectedVideoObjects}

NextList ==
    \/ HandleFileSelect([isVideo |-> TRUE, size |-> 1])
    \/ UploadResponse(TRUE)
    \/ \E videoId \in ListedVideoIds : HandleVideoSelect(videoId)
    \/ RunObjectDetection
    \/ \E videoId \in VideoIds : DetectionTick(videoId, 19)
    \/ DetectionResetTimeout
    \/ OpenVideoPlayer
    \/ ToggleObjectList
    \/ \E objectId \in RowIds(TickedRows) : ToggleObjectSelection(objectId)
    \/ \E objectId \in RowIds({2}) : OpenObjectDetail(objectId)
    \/ HandleBackToObjectList
    \/ BulkDeleteClick
    \/ HandleDeleteClick
    \/ \E checked \in BOOLEAN : SetDeleteConfirmed(checked)
    \/ ConfirmDelete
    \/ CancelDelete
    \/ \E videoId \in ListedVideoIds : \E objectId \in {2, MaxObjectIds} :
          DeleteObjectFromVideo(videoId, objectId)

SpecList == Init /\ [][NextList]_vars

\* C10: a confirmed bulk delete with id set S removes from the catalog all and
\* only the objects whose id is in S and keeps the others in their order; a
\* delete of an id that is not, or no longer, in the catalog changes nothing and
\* raises no error.
C10_BulkDeleteRemovesExactlyS ==
    [][/\ (last'.op = "confirmDelete" /\ last'.arg.kind = "bulk")
          => LET S == Range(player.selectedObjectIds)
                 old == selectedVideoObjects
                 new == FindVideo(videos', selectedVideo.id).detectedObjects
                 Pos(o) == CHOOSE k \in DOMAIN old : old[k] = o
             IN /\ ObjectIds(new) = ObjectIds(old) \ S
                /\ Len(new) = Cardinality(ObjectIds(old) \ S)
                /\ \A i \in DOMAIN new : new[i] \in Range(old)
                /\ \A i, j \in DOMAIN new : i < j => Pos(new[i]) < Pos(new[j])
       /\ (last'.op = "deleteObjectFromVideo"
           /\ last'.arg \notin ObjectIds(FindVideo(videos, last'.vid).detectedObjects))
          => videos' = videos]_vars

\* A bulk delete of two ticked rows that were not neighbours has just been
\* confirmed: three of the five detected objects are left.
C10_Witness ==
    /\ last.op = "confirmDelete"
    /\ last.arg.kind = "bulk"
    /\ Len(last.arg.ids) = 2
    /\ Len(selectedVideoObjects) = Len(DEFAULT_OBJECTS) - 2
    /\ selectedVideoObjects[1].name = ObjectName(2)
    /\ selectedVideoObjects[2].name = ObjectName(4)

(***************************************************************************)
(* SpecDetect: detection runs requested from the admin panel and from the   *)
(* refresh button of the open player.                                       *)
(***************************************************************************)
NextDetect ==
    \/ HandleFileSelect([isVideo |-> TRUE, size |-> 1])
    \/ UploadResponse(TRUE)
    \/ \E videoId \in ListedVideoIds : HandleVideoSelect(videoId)
    \/ RunObjectDetection
    \/ \E videoId \in VideoIds : DetectionTick(videoId, 19)
    \/ DetectionResetTimeout
    \/ OpenVideoPlayer
    \/ CloseVideoPlayer
    \/ ToggleObjectList
    \/ PlayerRunObjectDetection
    \/ \E videoId \in VideoIds : \E seen \in BOOLEAN :
          PlayerDetectionTick(videoId, seen, 19)
    \/ PlayerResetTimeout

SpecDetect == Init /\ [][NextDetect]_vars

\* C5: at most one detection run is in progress at any time: while a run has been
\* started and has not reached 100%, a further request to run detection, from the
\* admin panel button or from the refresh button of the player, starts no new
\* progress timer.
C5_AtMostOneRun == LiveProgressTimers <= 1

(***************************************************************************)
(* SpecEdit: edits of the catalog.  Detection fills the catalog of the      *)
(* selected video; an object is then updated with one, two or all of the    *)
(* editable fields, under an id that is in the catalog, was deleted from    *)
(* it, or never was in it.                                                  *)
(***************************************************************************)
NextEdit ==
    \/ HandleFileSelect([isVideo |-> TRUE, size |-> 1])
    \/ UploadResponse(TRUE)
    \/ \E videoId \in ListedVideoIds : HandleVideoSelect(videoId)
    \/ RunObjectDetection
    \/ \E videoId \in VideoIds : DetectionTick(videoId, 19)
    \/ DetectionResetTimeout
    \/ \E videoId \in ListedVideoIds : DeleteObjectFromVideo(videoId, 2)
    \/ \E videoId \in ListedVideoIds : \E objectId \in {2, 3, MaxObjectIds} :
          \E updates \in PartialUpdates : UpdateObjectInVideo(videoId, objectId, updates)

SpecEdit == Init /\ [][NextEdit]_vars

\* C11: updateObjectInVideo(videoId, objectId, updates) changes only the fields
\* present in updates on the object with that id; its other fields, every other
\* object, the catalog order and totalObjectsCreated are unchanged; when no object
\* has that id the catalog is unchanged.
C11_UpdateChangesOnlyGivenFields ==
    [][last'.op = "updateObjectInVideo"
       => LET objectId == last'.arg.id
              updates == last'.arg.updates
              old == FindVideo(videos, last'.vid)
              new == FindVideo(videos', last'.vid)
          IN /\ Len(videos') = Len(videos)
             /\ \A i \in DOMAIN videos : videos[i].id # last'.vid => videos'[i] = videos[i]
             /\ new.id = old.id
             /\ new.totalObjectsCreated = old.totalObjectsCreated
             /\ Len(new.detectedObjects) = Len(old.detectedObjects)
             /\ \A i \in DOMAIN old.detectedObjects :
                   LET before == old.detectedObjects[i]
                       after == new.detectedObjects[i]
                   IN IF before.id = objectId
                      THEN /\ DOMAIN after = DOMAIN before
                           /\ \A k \in DOMAIN before :
                                 after[k] = IF k \in DOMAIN updates THEN updates[k]
                                            ELSE before[k]
                      ELSE after = before
             /\ objectId \notin ObjectIds(old.detectedObjects) => videos' = videos]_vars

\* An update holding two of the five fields has just been applied to the third
\* detected object: its code and category are the new ones, its name, confidence
\* and id the ones detection gave it, and its neighbours are as detected.
C11_Witness ==
    /\ last.op = "updateObjectInVideo"
    /\ DOMAIN last.arg.updates = {"code", "category"}
    /\ Len(selectedVideoObjects) >= 4
    /\ selectedVideoObjects[3].id = last.arg.id
    /\ selectedVideoObjects[3].category = "GTIN"
    /\ selectedVideoObjects[3].code = [prefix |-> "EDITED", of |-> 0]
    /\ selectedVideoObjects[3].name = ObjectName(3)
    /\ selectedVideoObjects[3].confidence = DEFAULT_OBJECTS[3]
    /\ selectedVideoObjects[4] = DefaultObject(4, selectedVideoObjects[4].id)

(***************************************************************************)
(* SpecAbsent: catalog operations on a video that is no longer in the list. *)
(* A video is uploaded, selected and opened; the refresh button of the      *)
(* player starts its progress timer; the video is deleted; the timer then   *)
(* completes and calls the hook's runObjectDetection with the id it holds.  *)
(* addNewObjectToVideo, deleteObjectFromVideo and updateObjectInVideo are   *)
(* called with the id of a video that is not in the list.                   *)
(***************************************************************************)
AbsentVideoIds == VideoIds \ ListedVideoIds

NextAbsent ==
    \/ HandleFileSelect([isVideo |-> TRUE, size |-> 1])
    \/ UploadResponse(TRUE)
    \/ \E videoId \in ListedVideoIds : HandleVideoSelect(videoId)
    \/ PanelCloseTimeout
    \/ OpenVideoPlayer
    \/ CloseVideoPlayer
    \/ ToggleObjectList
    \/ PlayerRunObjectDetection
    \/ \E videoId \in VideoIds : \E seen \in BOOLEAN :
          PlayerDetectionTick(videoId, seen, 19)
    \/ PlayerResetTimeout
    \/ \E videoId \in VideoIds : DetectionTick(videoId, 19)
    \/ DetectionResetTimeout
    \/ \E videoId \in ListedVideoIds : DeleteVideo(videoId)
    \/ \E videoId \in AbsentVideoIds : AddNewObjectToVideo(videoId, NoName, 85)
    \/ \E videoId \in AbsentVideoIds : DeleteObjectFromVideo(videoId, 1)
    \/ \E videoId \in AbsentVideoIds : \E updates \in Updates :
          UpdateObjectInVideo(videoId, 1, updates)

SpecAbsent == Init /\ [][NextAbsent]_vars

\* C12: a catalog operation (add, update, delete, run detection) invoked with a
\* videoId that is not in the video list is a no-op: none of its steps, the
\* completion of the detection run included, changes the video list, a catalog or
\* counter, the selected video id or hasRunDetection.
C12_AbsentVideoIsNoOp ==
    [][(\/ /\ last'.op \in {"addNewObjectToVideo", "deleteObjectFromVideo",
                            "updateObjectInVideo", "playerDetectionComplete"}
           /\ ~HasVideo(videos, last'.vid)
        \/ /\ last'.op \in {"detectionTick", "detectionComplete"}
           /\ absentRuns[last'.vid] > 0
           /\ absentRuns[last'.vid] = detectIntervals[last'.vid])
       => /\ videos' = videos
          /\ selectedVideoId' = selectedVideoId
          /\ hasRunDetection' = hasRunDetection]_vars

(***************************************************************************)
(* SpecConfirm: the three delete dialogs.  Detection fills the catalog of   *)
(* the selected video; objects are deleted one by one and in bulk through   *)
(* the dialog of the player, the video through the dialog of the upload     *)
(* list, and the selected objects through the dialog of Index.              *)
(***************************************************************************)
NextConfirm ==
    \/ HandleFileSelect([isVideo |-> TRUE, size |-> 1])
    \/ UploadResponse(TRUE)
    \/ \E videoId \in ListedVideoIds : HandleVideoSelect(videoId)
    \/ PanelCloseTimeout
    \/ RunObjectDetection
    \/ \E videoId \in VideoIds : DetectionTick(videoId, 19)
    \/ OpenVideoPlayer
    \/ CloseVideoPlayer
    \/ ToggleObjectList
    \/ \E objectId \in RowIds({1}) : ToggleObjectSelection(objectId)
    \/ \E objectId \in RowIds({2}) : OpenObjectDetail(objectId)
    \/ BulkDeleteClick
    \/ HandleDeleteClick
    \/ \E checked \in BOOLEAN : SetDeleteConfirmed(checked)
    \/ ConfirmDelete
    \/ CancelDelete
    \/ OpenDeleteModal
    \/ \E checked \in BOOLEAN : SetIndexDeleteConfirmed(checked)
    \/ CancelIndexDelete
    \/ ConfirmIndexDelete
    \/ \E uploadId \in ListedVideoIds : UploadHandleDeleteClick(uploadId)
    \/ \E checked \in BOOLEAN : UploadSetDeleteConfirmed(checked)
    \/ UploadCancelDelete
    \/ UploadConfirmDelete

SpecConfirm == Init /\ [][NextConfirm]_vars

\* The step removes a video from the list or an object from a catalog.
Removes ==
    \E i \in DOMAIN videos :
        \/ ~HasVideo(videos', videos[i].id)
        \/ ~(ObjectIds(videos[i].detectedObjects)
               \subseteq ObjectIds(FindVideo(videos', videos[i].id).detectedObjects))

\* C14: no delete takes effect without confirmation.  A step of a delete flow
\* removes an object or a video only if it is the confirm step of a dialog that is
\* open with its checkbox set; a checkbox goes from clear to set only by the
\* checkbox step of its open dialog, and every step that opens a dialog leaves its
\* checkbox clear, so the checkbox was set after the dialog was last opened;
\* opening or cancelling a dialog removes nothing.
C14_NoDeleteWithoutConfirmation ==
    [][/\ (/\ last'.op \in {"handleDeleteClick", "bulkDeleteClick", "setDeleteConfirmed",
                            "cancelDelete", "confirmDelete"}
           /\ Removes)
          => /\ last'.op = "confirmDelete"
             /\ player.showDeleteConfirmModal
             /\ player.deleteConfirmed
       /\ (/\ last'.op \in {"uploadHandleDeleteClick", "uploadSetDeleteConfirmed",
                            "uploadCancelDelete", "uploadConfirmDelete"}
           /\ Removes)
          => /\ last'.op = "uploadConfirmDelete"
             /\ UploadDialogShown
             /\ dialogs.uploadDeleteConfirmed
       /\ (/\ last'.op \in {"openDeleteModal", "setIndexDeleteConfirmed",
                            "cancelIndexDelete", "deleteSelectedObjects"}
           /\ Removes)
          => /\ last'.op = "deleteSelectedObjects"
             /\ dialogs.showDeleteModal
             /\ dialogs.deleteConfirmed
       /\ (~player.deleteConfirmed /\ player'.deleteConfirmed)
          => last'.op = "setDeleteConfirmed" /\ player.showDeleteConfirmModal
       /\ (~dialogs.uploadDeleteConfirmed /\ dialogs'.uploadDeleteConfirmed)
          => last'.op = "uploadSetDeleteConfirmed" /\ UploadDialogShown
       /\ (~dialogs.deleteConfirmed /\ dialogs'.deleteConfirmed)
          => last'.op = "setIndexDeleteConfirmed" /\ dialogs.showDeleteModal
       /\ (\/ ~player.showDeleteConfirmModal /\ player'.showDeleteConfirmModal
           \/ last'.op \in {"handleDeleteClick", "bulkDeleteClick"} /\ player' # player)
          => ~player'.deleteConfirmed
       /\ (\/ ~dialogs.uploadShowDeleteModal /\ dialogs'.uploadShowDeleteModal
           \/ last'.op = "uploadHandleDeleteClick")
          => ~dialogs'.uploadDeleteConfirmed
       /\ (~dialogs.showDeleteModal /\ dialogs'.showDeleteModal)
          => ~dialogs'.deleteConfirmed]_vars

\* The video has just been removed through the dialog of the upload list, after
\* detection had run on it: the list is empty and the dialog is closed with its
\* checkbox clear.
C14_Witness ==
    /\ last.op = "uploadConfirmDelete"
    /\ last.arg = "deleted"
    /\ videos = <<>>
    /\ hasRunDetection
    /\ ~dialogs.uploadShowDeleteModal
    /\ ~dialogs.uploadDeleteConfirmed

(***************************************************************************)
(* SpecPlayback: playback around drawing mode.  The video of the open       *)
(* player is played and paused with the browser's controls, drawing mode is *)
(* turned on and off, and the restore callback of toggleDrawing runs.       *)
(***************************************************************************)
NextPlayback ==
    \/ HandleFileSelect([isVideo |-> TRUE, size |-> 1])
    \/ UploadResponse(TRUE)
    \/ \E videoId \in ListedVideoIds : HandleVideoSelect(videoId)
    \/ OpenVideoPlayer
    \/ CloseVideoPlayer
    \/ \E size \in CanvasSizes : InitializeCanvas(size)
    \/ \E paused \in BOOLEAN : SetPaused(paused)
    \/ TimeUpdate
    \/ ToggleDrawing
    \/ RestoreTimeout

SpecPlayback == Init /\ [][NextPlayback]_vars

\* C15: after drawing mode is toggled on and later toggled off, once the deferred
\* restore callback has run the video's paused/playing state and playback position
\* equal what they were just before drawing mode was toggled on; a video that was
\* playing before toggle-on is playing again.  Stated for a restore callback that
\* runs right after the toggle-off, with no other event in between.
C15_RestoresPlayback ==
    [][(/\ last.op = "toggleDrawing"
        /\ ~last.arg.on
        /\ last'.op = "restoreTimeout")
       => /\ videoElement'.paused = atToggleOn.paused
          /\ videoElement'.currentTime = atToggleOn.currentTime]_vars

(***************************************************************************)
(* Regions and drawing mode                                                *)
(***************************************************************************)

\* C16: committed regions exist only while drawing mode is active: in every
\* reachable state where drawing mode is off, the region list is empty.
C16_RegionsOnlyWhileDrawing ==
    ~player.isDrawing => player.drawnAreas = <<>>

(***************************************************************************)
(* The capture specification: drawing mode can be toggled at any moment,   *)
(* also while the pointer is held down on the canvas (the toggle button    *)
(* can be activated from the keyboard), and pointer events keep arriving   *)
(* afterwards.                                                             *)
(***************************************************************************)
NextCancel ==
    \/ HandleFileSelect([isVideo |-> TRUE, size |-> 1])
    \/ UploadResponse(TRUE)
    \/ \E videoId \in ListedVideoIds : HandleVideoSelect(videoId)
    \/ OpenVideoPlayer
    \/ \E size \in CanvasSizes : InitializeCanvas(size)
    \/ ToggleDrawing
    \/ RestoreTimeout
    \/ PointerFree /\ \E mode \in {"rectangle", "free"} : SetDrawingMode(mode)
    \/ \E raw \in DownPoints : HandleMouseDown(raw)
    \/ \E raw \in MovePoints : HandleMouseMove(raw)
    \/ \E raw \in UpPoints : HandleMouseUp(raw)

SpecCancel == Init /\ [][NextCancel]_vars

\* C17: toggling drawing mode off while a region is mid-capture discards that
\* region: the toggle clears the transient capture state at once and leaves
\* the region list alone; a pointer move, up or leave that arrives while no
\* capture is in progress changes nothing; a capture begins only with a new
\* pointer-down; and a region is added only by the pointer-up or leave that
\* ends a capture in progress, so no later event commits the cancelled capture.
C17_ToggleOffDiscardsCapture ==
    [][/\ (last'.op = "toggleDrawing" /\ ~last'.arg.on)
          => /\ ~player'.isMouseDown
             /\ player'.currentPath = <<>>
             /\ player'.rectangleStart = NoPoint
             /\ player'.currentRectangle = NoArea
             /\ player'.drawnAreas = player.drawnAreas
       /\ (~player.isMouseDown /\ last'.op \in {"handleMouseMove", "handleMouseUp"})
          => player' = player
       /\ (player'.isMouseDown /\ ~player.isMouseDown)
          => last'.op = "handleMouseDown"
       /\ (\E area \in Range(player'.drawnAreas) : area \notin Range(player.drawnAreas))
          => player.isMouseDown /\ last'.op = "handleMouseUp"]_vars

\* Drawing mode has just been turned off in the middle of a capture.
C17_Witness ==
    /\ last.op = "toggleDrawing"
    /\ ~last.arg.on
    /\ last.arg.capturing
    /\ ~player.isDrawing
    /\ ~player.isMouseDown

(***************************************************************************)
(* The session specification: the user uploads up to MaxVideos videos,     *)
(* selects a listed video and runs detection on it; no video is deleted.   *)
(***************************************************************************)
NextSession ==
    \/ HandleFileSelectUpTo([isVideo |-> TRUE, size |-> 1], MaxVideos)
    \/ UploadResponse(TRUE)
    \/ \E videoId \in ListedVideoIds : HandleVideoSelect(videoId)
    \/ RunObjectDetection
    \/ \E videoId \in VideoIds : DetectionTick(videoId, 19)
    \/ DetectionResetTimeout

SpecSession == Init /\ [][NextSession]_vars

\* C18: the session keeps several uploaded videos at once: a successful upload
\* adds its video to the list and leaves every video that was listed before it
\* in the list with its catalog and counter unchanged, so that after two
\* successful uploads the list holds both videos.
C18_UploadKeepsEarlierVideos ==
    [][(last'.op = "uploadResponse" /\ last'.arg = "ok")
       => /\ HasVideo(videos', last'.vid)
          /\ Len(videos') = Len(videos) + 1
          /\ \A i \in DOMAIN videos :
                /\ HasVideo(videos', videos[i].id)
                /\ FindVideo(videos', videos[i].id) = videos[i]]_vars

(***************************************************************************)
(* The preview specification: videos are uploaded, selected, analysed,     *)
(* deselected and deleted and the player is opened and closed.  The open   *)
(* player is a full-screen overlay, so the page beneath it takes clicks    *)
(* only while the player is closed; responses and timeouts arrive at any   *)
(* moment.                                                                 *)
(***************************************************************************)
PageReachable == ~showVideoPlayer

NextPreview ==
    \/ PageReachable /\ HandleFileSelectUpTo([isVideo |-> TRUE, size |-> 1], MaxVideos)
    \/ UploadResponse(TRUE)
    \/ PageReachable /\ \E videoId \in ListedVideoIds : HandleVideoSelect(videoId)
    \/ PageReachable /\ CloseAdminPanel
    \/ PanelCloseTimeout
    \/ PageReachable /\ OpenVideoPlayer
    \/ CloseVideoPlayer
    \/ PageReachable /\ \E videoId \in ListedVideoIds : DeleteVideo(videoId)
    \/ PageReachable /\ RunObjectDetection
    \/ \E videoId \in VideoIds : DetectionTick(videoId, 19)
    \/ DetectionResetTimeout

SpecPreview == Init /\ [][NextPreview]_vars

\* C19: the preview URL created for a video is revoked whenever that video
\* stops being the selected video, whether or not the player is open: a live
\* preview URL is the URL of the selected video.  (The player holds its one
\* preview URL in videoUrl, which names the video the URL was created for.)
C19_PreviewUrlOfSelectedVideo ==
    player.videoUrl # NoVideo => player.videoUrl = selectedVideo.id

(***************************************************************************)
(* The failure specification: uploads and cue-file requests succeed or     *)
(* fail.  A video is uploaded, selected and opened in the player, regions  *)
(* are drawn and exported, and the cue file is also requested from the     *)
(* admin panel.                                                            *)
(***************************************************************************)
NextFailure ==
    \/ \E file \in Files : HandleFileSelect(file)
    \/ \E ok \in BOOLEAN : UploadResponse(ok)
    \/ \E videoId \in ListedVideoIds : HandleVideoSelect(videoId)
    \/ PageReachable /\ DownloadWebVTT
    \/ OpenVideoPlayer
    \/ \E size \in CanvasSizes : InitializeCanvas(size)
    \/ PointerFree /\ ToggleDrawing
    \/ RestoreTimeout
    \/ HandleMouseDown([x |-> 0, y |-> 0])
    \/ HandleMouseUp([x |-> 6, y |-> 99])
    \/ PointerFree /\ SaveDrawingsAndDownloadWebVTT
    \/ \E ok \in BOOLEAN : VttResponse(ok)

SpecFailure == Init /\ [][NextFailure]_vars

\* What the claim requires of the failing response to the request of the step
\* before it: one failure notice, no new request, and the session state of
\* before the user action.
FailureLeaves(inFlightBefore, inFlightAfter) ==
    /\ Len(last'.toasts) = 1
    /\ last'.toasts[1].kind = "error"
    /\ inFlightAfter = inFlightBefore - 1
    /\ SessionState' = last.arg.before

\* C20: when the upload request or the cue-file fetch fails, exactly one
\* failure notice is emitted, the request is not retried, and the video list,
\* catalogs, counters and region list are the same as before the user action
\* that issued the request.
C20_FailureLeavesSessionState ==
    [][/\ (/\ last.op = "handleFileSelect"
           /\ last.arg.result = "requested"
           /\ last'.op = "uploadResponse"
           /\ last'.arg = "failed")
          => /\ FailureLeaves(uploadsInFlight, uploadsInFlight')
             /\ vttInFlight' = vttInFlight
       /\ (/\ last.op \in {"saveDrawings", "downloadWebVTT"}
           /\ last.arg.result = "requested"
           /\ last'.op = "vttResponse"
           /\ last'.arg = FALSE)
          => /\ FailureLeaves(vttInFlight, vttInFlight')
             /\ uploadsInFlight' = uploadsInFlight]_vars

(***************************************************************************)
(* The upload specification: the user picks files in the upload area, of   *)
(* any type and size; uploads succeed or fail; a listed video is selected  *)
(* and analysed.                                                           *)
(***************************************************************************)
NextUpload ==
    \/ \E file \in Files : HandleFileChange(file)
    \/ \E ok \in BOOLEAN : UploadResponse(ok)
    \/ \E videoId \in ListedVideoIds : HandleVideoSelect(videoId)
    \/ RunObjectDetection
    \/ \E videoId \in VideoIds : DetectionTick(videoId, 19)
    \/ DetectionResetTimeout

SpecUpload == Init /\ [][NextUpload]_vars

\* C21: a selected file whose MIME type does not start with video/ or whose
\* size exceeds 2 GB is rejected before any upload request is issued: no
\* network call is made, the video list is unchanged, and the user receives a
\* notice of the rejection.
C21_BadFileRejectedWithNotice ==
    [][(/\ last'.op \in {"handleFileChange", "handleFileSelect"}
        /\ \/ ~last'.arg.file.isVideo
           \/ last'.arg.file.size > MaxFileSize)
       => /\ uploadsInFlight' = uploadsInFlight
          /\ videos' = videos
          /\ Len(last'.toasts) = 1
          /\ last'.toasts[1].kind = "error"]_vars

(***************************************************************************)
(* The fair detection specification: detection runs are started from the   *)
(* admin panel and from the player, videos are deleted and the player is   *)
(* opened and closed meanwhile, and every live interval and pending        *)
(* timeout keeps firing.  A run is started only while the object ids it    *)
(* may use at its completion are left.                                     *)
(***************************************************************************)
RunFits ==
    \/ Len(selectedVideoObjects) > 0
    \/ nextObjectId + Len(DEFAULT_OBJECTS) * (LiveProgressTimers + 1) - 1 <= MaxObjectIds

NextLive ==
    \/ HandleFileSelect([isVideo |-> TRUE, size |-> 1])
    \/ UploadResponse(TRUE)
    \/ \E videoId \in ListedVideoIds : HandleVideoSelect(videoId)
    \/ PanelCloseTimeout
    \/ \E videoId \in ListedVideoIds : DeleteVideo(videoId)
    \/ RunFits /\ RunObjectDetection
    \/ \E videoId \in VideoIds : DetectionTick(videoId, 19)
    \/ DetectionResetTimeout
    \/ OpenVideoPlayer
    \/ CloseVideoPlayer
    \/ ToggleObjectList
    \/ RunFits /\ PlayerRunObjectDetection
    \/ \E videoId \in VideoIds : \E seen \in BOOLEAN :
          PlayerDetectionTick(videoId, seen, 19)
    \/ PlayerResetTimeout

\* setInterval keeps firing its callback until it is cleared, and a timeout fires.
\* A completing tick waits in the model while MaxTimers callbacks of the kind it
\* starts are pending; the interval fires again after that, hence the strong
\* fairness of the ticks.
FairTimers ==
    /\ \A videoId \in VideoIds :
          SF_vars(DetectionTick(videoId, 19))
    /\ \A videoId \in VideoIds : \A seen \in BOOLEAN :
          SF_vars(PlayerDetectionTick(videoId, seen, 19))
    /\ WF_vars(DetectionResetTimeout)
    /\ WF_vars(PlayerResetTimeout)

SpecLive == Init /\ [][NextLive]_vars /\ FairTimers

\* C22: every detection run that has started eventually completes: a live
\* interval of the hook leads to its completion step, which leaves progress at
\* 100, isDetecting false and hasRunDetection true and fills the empty catalog
\* of its video; a live interval of the player leads to the player's completion
\* step; a completion step ends exactly one run, and nothing else ends a run.
C22_StartedRunCompletes ==
    /\ \A videoId \in VideoIds :
          (detectIntervals[videoId] > 0)
             ~> (last.op = "detectionComplete" /\ last.vid = videoId)
    /\ \A videoId \in VideoIds :
          (\E seen \in BOOLEAN : playerIntervals[<<videoId, seen>>] > 0)
             ~> (last.op = "playerDetectionComplete" /\ last.vid = videoId)
    /\ [][/\ last'.op = "detectionComplete"
             => /\ detectionProgress' = ProgressDone
                /\ ~isDetecting'
                /\ hasRunDetection'
                /\ videos' = DetectionResult(videos, last'.vid, nextObjectId)
                /\ detectIntervals' = [detectIntervals EXCEPT ![last'.vid] = @ - 1]
          /\ last'.op = "playerDetectionComplete"
             => /\ player'.detectionProgress = ProgressDone
                /\ ~player'.isDetecting
                /\ playerIntervals' = [playerIntervals EXCEPT
                                          ![<<last'.vid, last'.arg = "ignored">>] = @ - 1]
          /\ detectIntervals' # detectIntervals
             => last'.op \in {"detectionComplete", "runObjectDetection",
                              "playerDetectionComplete"}
          /\ (\E videoId \in VideoIds : detectIntervals'[videoId] < detectIntervals[videoId])
             => last'.op = "detectionComplete"
          /\ (\E key \in DOMAIN playerIntervals : playerIntervals'[key] < playerIntervals[key])
             => last'.op = "playerDetectionComplete"]_vars

\* A run has completed for a video that was deleted while the run was in
\* progress.
C22_Witness ==
    /\ last.op = "detectionComplete"
    /\ ~HasVideo(videos, last.vid)
    /\ ~isDetecting
    /\ detectIntervals[last.vid] = 0

\* C23: while a detection run is in progress (isDetecting is true before and
\* after a step) the progress value never decreases and never exceeds 100, in
\* the hook and in the player, also when the run was started while the reset
\* timer of the previous run was still pending.
C23_ProgressMonotoneWhileDetecting ==
    [][/\ (isDetecting /\ isDetecting')
          => /\ detectionProgress' >= detectionProgress
             /\ detectionProgress' <= ProgressDone
       /\ (player.isDetecting /\ player'.isDetecting)
          => /\ player'.detectionProgress >= player.detectionProgress
             /\ player'.detectionProgress <= ProgressDone]_vars

\* C24: the canvas never shows stale content: in every state where the canvas
\* of the open player is initialized and no capture is in progress, what is
\* drawn on the canvas is exactly the committed region list, with no preview
\* left.
C24_CanvasShowsCommittedRegions ==
    (showVideoPlayer /\ player.canvasInitialized /\ ~player.isMouseDown)
       => canvas.shown = Redrawn(player.drawnAreas)

(***************************************************************************)
(* The erase specification: freehand strokes are committed and the pointer *)
(* goes down in erase mode at points at several distances from their      *)
(* vertices.                                                               *)
(***************************************************************************)
\* Click positions: (8, 8) is 8 px from the vertex (0, 0) on either axis,
\* (12, 0) is 12 px from it along one axis.
ErasePoints == {[x |-> 8, y |-> 8], [x |-> 12, y |-> 0]}

NextErase ==
    \/ HandleFileSelect([isVideo |-> TRUE, size |-> 1])
    \/ UploadResponse(TRUE)
    \/ \E videoId \in ListedVideoIds : HandleVideoSelect(videoId)
    \/ OpenVideoPlayer
    \/ \E size \in CanvasSizes : InitializeCanvas(size)
    \/ PointerFree /\ ToggleDrawing
    \/ RestoreTimeout
    \/ PointerFree /\ SetDrawingMode("free")
    \/ PointerFree /\ ToggleErasing
    \/ \E raw \in {[x |-> 0, y |-> 0]} \cup ErasePoints : HandleMouseDown(raw)
    \/ \E raw \in MovePoints : HandleMouseMove(raw)
    \/ HandleMouseUp([x |-> 5, y |-> 6])

SpecErase == Init /\ [][NextErase]_vars

\* dx^2 + dy^2 < 10^2 for some vertex of the path.
WithinRadius(area, p) ==
    \E k \in DOMAIN area.points :
       (area.points[k].x - p.x) * (area.points[k].x - p.x)
       + (area.points[k].y - p.y) * (area.points[k].y - p.y) < EraseRadius * EraseRadius

\* C25: in erase mode a committed path region is hit by a click exactly when
\* the click lies within a radius of 10 px (Euclidean) of one of its vertices:
\* a path that a click removes has a vertex within the radius, and a click
\* within the radius of a vertex of some path removes a region.
C25_PathHitWithinRadius ==
    [][(/\ last'.op = "handleMouseDown"
        /\ last'.arg.kind = "erase")
       => LET p == last'.arg.at
              old == player.drawnAreas
              new == player'.drawnAreas
          IN /\ \A i \in DOMAIN old :
                   (old[i].type = "path" /\ old[i] \notin Range(new))
                      => WithinRadius(old[i], p)
             /\ (\E i \in DOMAIN old : old[i].type = "path" /\ WithinRadius(old[i], p))
                   => Len(new) = Len(old) - 1]_vars

(***************************************************************************)
(* The resize specification: regions are committed and the window is      *)
(* resized, so that the video element is rendered smaller.                 *)
(***************************************************************************)
\* The size of the video element after the window was made smaller.
ResizedSizes == {[width |-> 20, height |-> 10]}

\* The resize listener with the timer it starts: handleResize tests isOpen &&
\* canvasInitialized and calls initializeCanvas 100 ms later, which reads the
\* rendered size of the video element again.
HandleResize(size) ==
    /\ player.canvasInitialized
    /\ InitializeCanvas(size)

NextResize ==
    \/ HandleFileSelect([isVideo |-> TRUE, size |-> 1])
    \/ UploadResponse(TRUE)
    \/ \E videoId \in ListedVideoIds : HandleVideoSelect(videoId)
    \/ OpenVideoPlayer
    \/ \E size \in CanvasSizes : ~player.canvasInitialized /\ InitializeCanvas(size)
    \/ \E size \in ResizedSizes : HandleResize(size)
    \/ PointerFree /\ ToggleDrawing
    \/ RestoreTimeout
    \/ PointerFree /\ \E mode \in {"rectangle", "free"} : SetDrawingMode(mode)
    \/ \E raw \in DownPoints : HandleMouseDown(raw)
    \/ \E raw \in MovePoints : HandleMouseMove(raw)
    \/ \E raw \in UpPoints : HandleMouseUp(raw)

SpecResize == Init /\ [][NextResize]_vars

\* p is a point of the canvas as it is now.
OnCanvas(p) ==
    /\ 0 <= p.x /\ p.x <= canvas.width
    /\ 0 <= p.y /\ p.y <= canvas.height

\* C26: every point of every committed region (the corners of a rectangle, the
\* vertices of a path) lies within [0, canvas.width] x [0, canvas.height] of the
\* current canvas, also after the canvas was re-sized to match the video.
C26_RegionsWithinCanvas ==
    \A i \in DOMAIN player.drawnAreas :
       LET area == player.drawnAreas[i]
       IN /\ area.startPoint # NoPoint => OnCanvas(area.startPoint)
          /\ area.endPoint # NoPoint => OnCanvas(area.endPoint)
          /\ \A k \in DOMAIN area.points : OnCanvas(area.points[k])

(***************************************************************************)
(* The selection specification: uploads, selections, deselections, panel   *)
(* closes and deletions interleave with the 300 ms close timer and with   *)
(* hook detection runs.                                                   *)
(***************************************************************************)
NextSelect ==
    \/ HandleFileSelect([isVideo |-> TRUE, size |-> 1])
    \/ UploadResponse(TRUE)
    \/ \E videoId \in ListedVideoIds \cup {NoVideo} : HandleVideoSelect(videoId)
    \/ CloseAdminPanel
    \/ PanelCloseTimeout
    \/ \E videoId \in ListedVideoIds : DeleteVideo(videoId)
    \/ RunFits /\ RunObjectDetection
    \/ \E videoId \in VideoIds : DetectionTick(videoId, 19)
    \/ DetectionResetTimeout

SpecSelect == Init /\ [][NextSelect]_vars

\* C27: selectedVideoId is null or the id of a video of the video list, also
\* after a video was deleted, after an upload replaced the list and after a
\* detection run completed for a video that was removed during the run.
C27_SelectionIsListed ==
    selectedVideoId = NoVideo \/ HasVideo(videos, selectedVideoId)

\* C28: a selection is not undone by a stale timer: when video v is selected
\* while the 300 ms close timer is pending and the next thing that happens is
\* that timer firing, selectedVideoId is still v and the admin panel is visible.
C28_SelectionSurvivesStaleTimer ==
    [][(/\ last.op = "handleVideoSelect"
        /\ last.vid # NoVideo
        /\ closeTimers > 0
        /\ last'.op = "panelCloseTimeout")
       => /\ selectedVideoId' = last.vid
          /\ adminPanelVisible']_vars

(***************************************************************************)
(* The frame specification: regions are drawn in the open player while    *)
(* the catalog of its video is changed by detection, updates and deletes. *)
(***************************************************************************)
NextFrame ==
    \/ HandleFileSelect([isVideo |-> TRUE, size |-> 1])
    \/ UploadResponse(TRUE)
    \/ \E videoId \in ListedVideoIds : HandleVideoSelect(videoId)
    \/ RunFits /\ RunObjectDetection
    \/ \E videoId \in VideoIds : DetectionTick(videoId, 19)
    \/ OpenVideoPlayer
    \/ \E size \in CanvasSizes : ~player.canvasInitialized /\ InitializeCanvas(size)
    \/ PointerFree /\ ToggleDrawing
    \/ RestoreTimeout
    \/ PointerFree /\ ToggleErasing
    \/ ~player.isErasing /\ HandleMouseDown([x |-> 0, y |-> 0])
    \/ HandleMouseUp([x |-> 6, y |-> 99])
    \/ \E videoId \in ListedVideoIds : 2 \in KnownObjectIds(videoId)
          /\ DeleteObjectFromVideo(videoId, 2)
    \/ \E videoId \in ListedVideoIds : \E updates \in Updates :
          2 \in KnownObjectIds(videoId) /\ UpdateObjectInVideo(videoId, 2, updates)

SpecFrame == Init /\ [][NextFrame]_vars

\* C29: while the player is open, updating or deleting a catalog object, or a
\* detection run completing, leaves the committed region list, the drawing-mode
\* flag and the erase flag of the player unchanged.
C29_CatalogMutationKeepsDrawingState ==
    [][(/\ showVideoPlayer
        /\ last'.op \in {"updateObjectInVideo", "deleteObjectFromVideo",
                         "detectionComplete"})
       => /\ player'.drawnAreas = player.drawnAreas
          /\ player'.isDrawing = player.isDrawing
          /\ player'.isErasing = player.isErasing]_vars

(***************************************************************************)
(* The bulk-selection specification: objects of the open player's list    *)
(* are ticked, opened in the detail view, deleted one by one and in bulk, *)
(* while the player is closed and reopened and the admin panel is closed. *)
(***************************************************************************)
NextBulk ==
    \/ HandleFileSelect([isVideo |-> TRUE, size |-> 1])
    \/ UploadResponse(TRUE)
    \/ \E videoId \in ListedVideoIds : HandleVideoSelect(videoId)
    \/ CloseAdminPanel
    \/ PanelCloseTimeout
    \/ RunFits /\ RunObjectDetection
    \/ \E videoId \in VideoIds : DetectionTick(videoId, 19)
    \/ OpenVideoPlayer
    \/ CloseVideoPlayer
    \/ ToggleObjectList
    \/ \E objectId \in RowIds({1, 2}) : ToggleObjectSelection(objectId)
    \/ \E objectId \in RowIds({1, 2}) : OpenObjectDetail(objectId)
    \/ BulkDeleteClick
    \/ HandleDeleteClick
    \/ SetDeleteConfirmed(TRUE)
    \/ ConfirmDelete

SpecBulk == Init /\ [][NextBulk]_vars

\* C30: the bulk-selection id list of the player contains only ids of objects
\* that are in the catalog of the selected video, in every reachable state, also
\* after a selected object was deleted from its detail view.
C30_SelectionWithinCatalog ==
    Range(player.selectedObjectIds) \subseteq ObjectIds(selectedVideoObjects)

====
